---- MODULE Spec2Model ----
(***************************************************************************)
(* Model of the Excel consolidator (src/app.py): the ExcelProcessor        *)
(* pipeline (process_files and what it calls), the stock index and its     *)
(* lookups, the Centralizator aggregation, and the worker thread of the    *)
(* GUI that reports the outcome.                                           *)
(*                                                                         *)
(* Text is a sequence of one-character strings, so that strip, upper,      *)
(* split/join, endswith and slicing are computed character by character.   *)
(* A cell value is a record [k, n, s]: k = "none" (Python None), "num"     *)
(* (an int/float cell, value n) or "str" (a text cell, characters s).      *)
(* Prices produced by round(x, 6) are held in millionths (Scale).          *)
(***************************************************************************)
EXTENDS Integers, Sequences, FiniteSets, TLC

\* ------------------------------------------------------------ bounds
MaxStock == 2
MaxStockQty == 2
MaxRows == 2
MaxFiles == 2
MaxHeaderWords == 2

\* ------------------------------------------------- program constants
SuffixLen == 6
RoundDigits == 6
PollEvery == 50
MinHeaderLike == 2
MinMeaningful == 2
HeaderScanRows == 25
HeaderScanCols == 15
MinIndicators == 3
Scale == 10 ^ RoundDigits

\* ------------------------------------------------------------- text
Whitespace == {" ", "\n"}
Digits == <<"0", "1", "2", "3", "4", "5", "6", "7", "8", "9">>

LowerLetters == <<"a", "b", "c", "d", "e", "f", "g", "h", "i", "j", "k", "l", "m",
                  "n", "o", "p", "q", "r", "s", "t", "u", "v", "w", "x", "y", "z">>
UpperLetters == <<"A", "B", "C", "D", "E", "F", "G", "H", "I", "J", "K", "L", "M",
                  "N", "O", "P", "Q", "R", "S", "T", "U", "V", "W", "X", "Y", "Z">>

\* str.upper() and str.lower(), one character
upper_char(c) ==
    IF \E i \in 1..26 : LowerLetters[i] = c
    THEN UpperLetters[CHOOSE i \in 1..26 : LowerLetters[i] = c]
    ELSE c

lower_char(c) ==
    IF \E i \in 1..26 : UpperLetters[i] = c
    THEN LowerLetters[CHOOSE i \in 1..26 : UpperLetters[i] = c]
    ELSE c

upper(s) == [i \in 1..Len(s) |-> upper_char(s[i])]
lower(s) == [i \in 1..Len(s) |-> lower_char(s[i])]

\* str.strip(): leading and trailing whitespace removed
RECURSIVE lstrip(_)
lstrip(s) == IF s # <<>> /\ Head(s) \in Whitespace THEN lstrip(Tail(s)) ELSE s

RECURSIVE rstrip(_)
rstrip(s) ==
    IF s # <<>> /\ s[Len(s)] \in Whitespace
    THEN rstrip(SubSeq(s, 1, Len(s) - 1))
    ELSE s

strip(s) == rstrip(lstrip(s))

\* "".join(s.split()): every whitespace character removed
remove_whitespace(s) == SelectSeq(s, LAMBDA c : c \notin Whitespace)

\* s[-n:] if len(s) >= n else s
last_chars(s, n) == IF Len(s) >= n THEN SubSeq(s, Len(s) - n + 1, Len(s)) ELSE s

\* a.endswith(b)
endswith(a, b) == Len(b) <= Len(a) /\ SubSeq(a, Len(a) - Len(b) + 1, Len(a)) = b

\* needle in hay
contains(hay, needle) ==
    \E i \in 0..(Len(hay) - Len(needle)) : SubSeq(hay, i + 1, i + Len(needle)) = needle

DigitValue(c) == CHOOSE d \in 0..9 : Digits[d + 1] = c
IsDigit(c) == \E d \in 1..10 : Digits[d] = c
AllDigits(s) == s # <<>> /\ \A i \in 1..Len(s) : IsDigit(s[i])

RECURSIVE DecimalValue(_)
DecimalValue(s) ==
    IF s = <<>> THEN 0
    ELSE 10 * DecimalValue(SubSeq(s, 1, Len(s) - 1)) + DigitValue(s[Len(s)])

\* str(n) of a non-negative int
RECURSIVE DecimalText(_)
DecimalText(n) ==
    IF n < 10 THEN <<Digits[n + 1]>>
    ELSE DecimalText(n \div 10) \o <<Digits[(n % 10) + 1]>>

\* ------------------------------------------------------------ cells
None == [k |-> "none", n |-> 0, s |-> <<>>]
Num(v) == [k |-> "num", n |-> v, s |-> <<>>]
Str(t) == [k |-> "str", n |-> 0, s |-> t]

\* a float with decimals: t units of 1/Fine, one decimal finer than the six the
\* program rounds to.  Only Quantity cells hold such numbers; the other
\* numbers of a workbook are whole.
Fine == 10 * Scale
Dec(t) == [k |-> "dec", n |-> t, s |-> <<>>]

\* the value of a number, in units of 1/Fine
val(x) == IF x.k = "dec" THEN x.n ELSE x.n * Fine

\* the decimals of repr(float), r of width w: leading zeros kept, trailing dropped
RECURSIVE DecimalsText(_, _)
DecimalsText(r, w) ==
    IF w = 0 \/ r = 0 THEN <<>>
    ELSE LET unit == 10 ^ (w - 1)
         IN <<Digits[(r \div unit) + 1]>> \o DecimalsText(r % unit, w - 1)

\* repr of a float of at least 0.0001, which is written without an exponent
FloatText(t) ==
    DecimalText(t \div Fine) \o <<".">>
        \o (IF t % Fine = 0 THEN <<"0">> ELSE DecimalsText(t % Fine, RoundDigits + 1))

\* bool(x): None, 0 and "" are falsy
truthy(x) ==
    CASE x.k = "none" -> FALSE
      [] x.k \in {"num", "dec"} -> x.n # 0
      [] OTHER -> x.s # <<>>

\* str(x)
pystr(x) ==
    CASE x.k = "none" -> <<"N", "o", "n", "e">>
      [] x.k = "num" -> IF x.n < 0 THEN <<"-">> \o DecimalText(-x.n) ELSE DecimalText(x.n)
      [] x.k = "dec" -> IF x.n < 0 THEN <<"-">> \o FloatText(-x.n) ELSE FloatText(x.n)
      [] OTHER -> x.s

\* str(x or '')
str_or_empty(x) == IF truthy(x) THEN pystr(x) ELSE <<>>

\* float(s) of a text without separators: an optional sign and digits, else ValueError
float_text(s) ==
    IF AllDigits(s) THEN Num(DecimalValue(s))
    ELSE IF s # <<>> /\ Head(s) = "-" /\ AllDigits(Tail(s)) THEN Num(-DecimalValue(Tail(s)))
    ELSE IF s # <<>> /\ Head(s) = "+" /\ AllDigits(Tail(s)) THEN Num(DecimalValue(Tail(s)))
    ELSE None

\* to_float(x): None on failure.  The model's texts hold no "," and no ".",
\* so the decimal-comma branch never rewrites the text.
to_float(x) ==
    CASE x.k = "none" -> None
      [] x.k = "num" -> Num(x.n)
      [] x.k = "dec" -> x
      [] OTHER -> IF x.s = <<>> THEN None ELSE float_text(remove_whitespace(strip(x.s)))

\* ------------------------------------------------------ stock index
normalize_code(s) == remove_whitespace(upper(strip(s)))

\* A dict is a sequence of <<key, value>> in insertion order, keys distinct.
DictKeys(d) == {d[i][1] : i \in 1..Len(d)}
DictGet(d, key) == (CHOOSE i \in 1..Len(d) : d[i][1] = key)
DictValue(d, key) == d[DictGet(d, key)][2]

\* d[key] = value: a present key keeps its place
DictSet(d, key, value) ==
    IF key \in DictKeys(d)
    THEN [d EXCEPT ![DictGet(d, key)] = <<key, value>>]
    ELSE Append(d, <<key, value>>)

\* d.setdefault(key, []).append(item)
DictAppend(d, key, item) ==
    IF key \in DictKeys(d)
    THEN [d EXCEPT ![DictGet(d, key)] = <<key, Append(d[DictGet(d, key)][2], item)>>]
    ELSE Append(d, <<key, <<item>>>>)

\* ------------------------------------------------------------ state
VARIABLES
    files,            \* the input workbooks, in file_paths order
    cancel_event,     \* the cancel flag the front-end sets
    pc,               \* where the run is
    fi,               \* process_files: index of the file being read
    si,               \* _extract_data_from_file: index of the sheet being read
    ri,               \* _extract_data_from_sheet: the row r being read
    extracted,        \* _extract_data_from_sheet: rows kept from this sheet so far
    data,             \* _extract_data_from_file: rows extracted from this file
    sheets_info,      \* _extract_data_from_file: sheets seen in this file
    consolidated_data,            \* process_files: the Cumulative rows
    row_counter,                  \* process_files: the next Nr. crt
    source_sheets,                \* ExcelProcessor.source_sheets
    stock_data,                   \* ExcelProcessor.stock_data: raw code -> quantity
    stock_exact,                  \* ExcelProcessor._stock_exact
    stock_by_suffix,              \* ExcelProcessor._stock_by_suffix
    grouped,                      \* _create_centralizator_data: groups with a code
    items_without_code_grouped,   \* _create_centralizator_data: groups without
    cen_data,                     \* the Centralizator rows
    wb_sheets,        \* sheet names of the output workbook, in order
    ci,               \* _create_consolidated_workbook: index of the sheet being copied
    output_writable,  \* whether output_file can be written
    saved,            \* whether wb.save(output_file) has written the output
    open_handles,     \* number of workbooks open and not yet closed
    raised,           \* the exception process_files ended with, "" if none
    raised_at,        \* the poll point whose _check_cancel raised, "" if none
    outcome,          \* the message handed to _processing_complete, "" if none yet
    query,            \* the article code last looked up in the stock index
    found_qty,        \* what find_stock_quantity returned for it
    found_code,       \* what find_stock_code returned for it
    header_text,      \* _map_header: the header cell's text
    mapped,           \* _map_header: the field it returned, "" for None
    row_read,         \* _extract_data_from_sheet: row_data, the mapped cells of one row
    kept,             \* whether the row loop appended it
    sheet_cells,      \* _extract_data_from_sheet: the cells of the sheet, by row
    header_row        \* _extract_data_from_sheet: the header row found, 0 for None

stockVars == <<stock_data, stock_exact, stock_by_suffix>>
lookupVars == <<query, found_qty, found_code>>
sheetVars == <<header_text, mapped, row_read, kept, sheet_cells, header_row>>
aggVars == <<grouped, items_without_code_grouped, cen_data>>
extractVars ==
    <<fi, si, ri, extracted, data, sheets_info, consolidated_data, row_counter, source_sheets>>
outVars == <<wb_sheets, ci, output_writable, saved>>
runVars == <<cancel_event, open_handles, raised, raised_at, outcome>>

vars == <<files, pc, stockVars, lookupVars, sheetVars, aggVars, extractVars, outVars, runVars>>

\* every sequence over S of length at most n
BoundedSeq(S, n) == UNION {[1..m -> S] : m \in 0..n}

Min(S) == CHOOSE x \in S : \A y \in S : x <= y

\* _build_stock_index, the exact map: {normalize(k): v for k, v in stock_data.items()}
RECURSIVE stock_exact_of(_)
stock_exact_of(sd) ==
    IF sd = <<>> THEN <<>>
    ELSE LET e == sd[Len(sd)]
         IN DictSet(stock_exact_of(SubSeq(sd, 1, Len(sd) - 1)), normalize_code(e[1]), e[2])

\* _build_stock_index, the suffix buckets: suffix -> [(normalized code, quantity), ...]
RECURSIVE stock_by_suffix_of(_)
stock_by_suffix_of(sd) ==
    IF sd = <<>> THEN <<>>
    ELSE LET e == sd[Len(sd)]
             nk == normalize_code(e[1])
         IN DictAppend(stock_by_suffix_of(SubSeq(sd, 1, Len(sd) - 1)),
                       last_chars(nk, SuffixLen), <<nk, e[2]>>)

\* self._stock_by_suffix.get(key[-6:] if len(key) >= 6 else key, [])
bucket_of(key) ==
    LET suf == last_chars(key, SuffixLen)
    IN IF suf \in DictKeys(stock_by_suffix) THEN DictValue(stock_by_suffix, suf) ELSE <<>>

\* nk.endswith(key) or f" {key} " in f" {nk} "
fuzzy_match(nk, key) ==
    endswith(nk, key) \/ contains(<<" ">> \o nk \o <<" ">>, <<" ">> \o key \o <<" ">>)

fuzzy_hits(key) ==
    LET bucket == bucket_of(key)
    IN {i \in 1..Len(bucket) : fuzzy_match(bucket[i][1], key)}

\* find_stock_quantity taking the last match of the bucket, not the first
find_stock_quantity_last_match(cod_articol) ==
    IF cod_articol = <<>> \/ stock_data = <<>> THEN 0
    ELSE LET key == normalize_code(cod_articol)
         IN IF key \in DictKeys(stock_exact) THEN DictValue(stock_exact, key)
            ELSE IF fuzzy_hits(key) = {} THEN 0
            ELSE bucket_of(key)[CHOOSE i \in fuzzy_hits(key) : \A j \in fuzzy_hits(key) : j <= i][2]

find_stock_quantity(cod_articol) ==
    IF cod_articol = <<>> \/ stock_data = <<>> THEN 0
    ELSE LET key == normalize_code(cod_articol)
         IN IF key \in DictKeys(stock_exact) THEN DictValue(stock_exact, key)
            ELSE IF fuzzy_hits(key) = {} THEN 0
            ELSE bucket_of(key)[Min(fuzzy_hits(key))][2]

\* the stock_data entries whose original code normalizes to nk
originals_of(nk) == {i \in 1..Len(stock_data) : normalize_code(stock_data[i][1]) = nk}

find_stock_code(cod_articol) ==
    IF cod_articol = <<>> \/ stock_data = <<>> THEN <<>>
    ELSE LET key == normalize_code(cod_articol)
         IN IF originals_of(key) # {} THEN stock_data[Min(originals_of(key))][1]
            ELSE LET hits == {i \in fuzzy_hits(key) : originals_of(bucket_of(key)[i][1]) # {}}
                 IN IF hits = {} THEN <<>>
                    ELSE stock_data[Min(originals_of(bucket_of(key)[Min(hits)][1]))][1]

\* ----------------------------------------------------- stock sheet
\* A workbook is [opens, sheets], opens telling whether load_workbook succeeds
\* when the file is read for extraction, for the stock step and for the copy of
\* its sheets; a sheet is [name, hrow, maxrow, rows, stock]:
\* hrow/maxrow/rows are what item extraction sees in it, and stock is what
\* _extract_stock_data sees in it: whether a header row and the two columns
\* are found, whether reading it raises, and its (code, quantity) cells.
StockSheetNames == {<<"s", "t", "o", "c">>, <<"s", "t", "o", "c", "k">>,
                    <<"i", "n", "v", "e", "n", "t", "o", "r", "y">>}

stock_sheets_of(workbook) ==
    {i \in 1..Len(workbook.sheets) : lower(workbook.sheets[i].name) \in StockSheetNames}

\* the loop over the data rows of the stock sheet
RECURSIVE stock_entries(_)
stock_entries(rows) ==
    IF rows = <<>> THEN <<>>
    ELSE LET before == stock_entries(SubSeq(rows, 1, Len(rows) - 1))
             code == rows[Len(rows)].code
             qty == rows[Len(rows)].qty
         IN IF truthy(code) /\ qty.k # "none" /\ to_float(qty).k # "none"
            THEN DictSet(before, strip(pystr(code)), to_float(qty).n)
            ELSE before

\* a reading that keeps the entries read before the error
extract_stock_data_partial(workbook) ==
    IF stock_sheets_of(workbook) = {} THEN <<>>
    ELSE LET ws == workbook.sheets[Min(stock_sheets_of(workbook))].stock
         IN IF ~ws.header THEN <<>>
            ELSE IF ~ws.cols THEN <<>>
            ELSE stock_entries(ws.rows)

extract_stock_data(workbook) ==
    IF stock_sheets_of(workbook) = {} THEN <<>>
    ELSE LET ws == workbook.sheets[Min(stock_sheets_of(workbook))].stock
         IN IF ws.raises THEN <<>>
            ELSE IF ~ws.header THEN <<>>
            ELSE IF ~ws.cols THEN <<>>
            ELSE stock_entries(ws.rows)

\* process_files, the stock step: a failure to open the first file, like any
\* error below it, leaves stock_data empty
stock_step(file_paths, opens) ==
    IF ~opens THEN <<>> ELSE extract_stock_data(file_paths[1])

\* ------------------------------------------------------ aggregation
\* A canonical row is a record of cells: descriere, denumire, cod_articol,
\* furnizor, cantitate, pu, pret_total, pu_taxa, pret_total_taxa, and the
\* provenance sheet and nr_crt.  Numbers are integers; a price or a quantity that
\* the aggregation produced is held in millionths, so 16.0 is 16 * Scale.

\* the greatest common divisor, by which a quotient is reduced before it is
\* divided out (the result is the same; the numbers stay small)
RECURSIVE gcd(_, _)
gcd(a, b) == IF b = 0 THEN a ELSE gcd(b, a % b)

\* the first k decimals of r / b, for 0 <= r < b, and what remains: <<decimals, remainder>>
RECURSIVE decimals_of(_, _, _)
decimals_of(r, b, k) ==
    IF k = 0 THEN <<0, r>>
    ELSE LET rest == decimals_of((r * 10) % b, b, k - 1)
         IN <<((r * 10) \div b) * 10 ^ (k - 1) + rest[1], rest[2]>>

\* round(num / den, 6), in millionths.  To the nearest; no quotient of the
\* model lies halfway between two millionths.
round6(num, den) ==
    LET n == IF num < 0 THEN -num ELSE num
        d == IF den < 0 THEN -den ELSE den
        a == n \div gcd(n, d)
        b == d \div gcd(n, d)
        dec == decimals_of(a % b, b, RoundDigits)
        nearest == (a \div b) * Scale + dec[1] + (IF 2 * dec[2] >= b THEN 1 ELSE 0)
    IN IF (num < 0) = (den < 0) THEN nearest ELSE -nearest

RECURSIVE sum_q(_)
sum_q(pairs) == IF pairs = <<>> THEN 0 ELSE pairs[1][2] + sum_q(Tail(pairs))

RECURSIVE sum_pq(_)
sum_pq(pairs) == IF pairs = <<>> THEN 0 ELSE pairs[1][1] * pairs[1][2] + sum_pq(Tail(pairs))

\* wavg: pairs are <<price, quantity>>
wavg(pairs) == IF sum_q(pairs) # 0 THEN round6(sum_pq(pairs), sum_q(pairs)) ELSE 0

\* to_float(x) or 0.0, of a price: a whole number
float_or_zero(x) == IF to_float(x).k = "none" THEN 0 ELSE to_float(x).n

\* q = to_float(it.get('Cantitate')) or 0.0, in units of 1/Fine
qty_or_zero(x) == IF to_float(x).k = "none" THEN 0 ELSE val(to_float(x))

\* group_key with one dict for all rows, keyed by the code or else the description
group_key_one_dict(it) ==
    LET code == strip(str_or_empty(it.cod_articol))
        desc == strip(str_or_empty(it.descriere))
    IN [coded |-> TRUE, key |-> IF code # <<>> THEN code ELSE desc]

\* the key a row is grouped under: [coded, key]
group_key(it) ==
    LET code == strip(str_or_empty(it.cod_articol))
        desc == strip(str_or_empty(it.descriere))
        denom == strip(str_or_empty(it.denumire))
    IN IF code # <<>> THEN [coded |-> TRUE, key |-> code]
       ELSE IF desc # <<>> THEN [coded |-> FALSE, key |-> desc]
       ELSE IF denom # <<>> THEN [coded |-> FALSE, key |-> denom]
       ELSE [coded |-> FALSE, key |-> <<"N", "O", "_", "I", "D", "E", "N", "T", "I", "F", "I", "E", "R">>]

\* a grouping loop that assigns where it should append: a key keeps its last row
RECURSIVE group_rows_last_wins(_)
group_rows_last_wins(rows) ==
    IF rows = <<>> THEN [grouped |-> <<>>, items_without_code_grouped |-> <<>>]
    ELSE LET before == group_rows_last_wins(SubSeq(rows, 1, Len(rows) - 1))
             it == rows[Len(rows)]
             gk == group_key(it)
         IN IF gk.coded
            THEN [before EXCEPT !.grouped = DictSet(@, gk.key, <<it>>)]
            ELSE [before EXCEPT !.items_without_code_grouped = DictSet(@, gk.key, <<it>>)]

\* the grouping loop: rows with a code into grouped, the others into
\* items_without_code_grouped; each a dict key -> rows, in order of arrival
RECURSIVE group_rows(_)
group_rows(rows) ==
    IF rows = <<>> THEN [grouped |-> <<>>, items_without_code_grouped |-> <<>>]
    ELSE LET before == group_rows(SubSeq(rows, 1, Len(rows) - 1))
             it == rows[Len(rows)]
             gk == group_key(it)
         IN IF gk.coded
            THEN [before EXCEPT !.grouped = DictAppend(@, gk.key, it)]
            ELSE [before EXCEPT !.items_without_code_grouped = DictAppend(@, gk.key, it)]

RECURSIVE sum_qty(_)
sum_qty(items) ==
    IF items = <<>> THEN 0 ELSE qty_or_zero(items[1].cantitate) + sum_qty(Tail(items))

\* qty_val: int(sum_qty) if it is within 1e-9 of a whole number, else
\* round(sum_qty, 6); sum_qty in units of 1/Fine, the result in millionths
qty_val(total_qty) ==
    IF total_qty % Fine = 0 THEN (total_qty \div Fine) * Scale
    ELSE round6(total_qty, Fine)

\* sum_total that never reads the row's own total
RECURSIVE sum_total_recomputed(_, _, _)
sum_total_recomputed(items, unit, total) ==
    IF items = <<>> THEN 0
    ELSE float_or_zero(items[1][unit]) * qty_or_zero(items[1].cantitate)
             + sum_total_recomputed(Tail(items), unit, total)

\* sum of tot if tot is not None else (pu or 0.0) * q, in units of 1/Fine
RECURSIVE sum_total(_, _, _)
sum_total(items, unit, total) ==
    IF items = <<>> THEN 0
    ELSE LET it == items[1]
             q == qty_or_zero(it.cantitate)
             tot == to_float(it[total])
         IN (IF tot.k # "none" THEN val(tot) ELSE float_or_zero(it[unit]) * q)
                + sum_total(Tail(items), unit, total)

\* price_pairs that lets rows without a unit price weigh in, at price 0
RECURSIVE price_pairs_all_rows(_, _)
price_pairs_all_rows(items, unit) ==
    IF items = <<>> THEN <<>>
    ELSE <<<<float_or_zero(items[1][unit]), qty_or_zero(items[1].cantitate)>>>>
             \o price_pairs_all_rows(Tail(items), unit)

\* the <<price, quantity>> pairs of the rows whose unit price parses
RECURSIVE price_pairs(_, _)
price_pairs(items, unit) ==
    IF items = <<>> THEN <<>>
    ELSE LET it == items[1]
             rest == price_pairs(Tail(items), unit)
         IN IF to_float(it[unit]).k # "none"
            THEN <<<<to_float(it[unit]).n, qty_or_zero(it.cantitate)>>>> \o rest
            ELSE rest

\* one Centralizator row, of a group with a code (coded) or without
aggregate_group(key, items, coded) ==
    [descriere |-> items[1].descriere,
     denumire |-> items[1].denumire,
     cod_articol |-> IF coded THEN key ELSE <<>>,
     furnizor |-> items[1].furnizor,
     cantitate |-> qty_val(sum_qty(items)),
     pu |-> wavg(price_pairs(items, "pu")),
     pret_total |-> round6(sum_total(items, "pu", "pret_total"), Fine),
     pu_taxa |-> wavg(price_pairs(items, "pu_taxa")),
     pret_total_taxa |-> round6(sum_total(items, "pu_taxa", "pret_total_taxa"), Fine),
     stoc |-> IF coded THEN find_stock_quantity(key) ELSE 0,
     cod_stoc |-> IF coded THEN find_stock_code(key) ELSE <<>>]

aggregate_groups(groups, coded) ==
    [i \in 1..Len(groups) |-> aggregate_group(groups[i][1], groups[i][2], coded)]

\* ordinary string comparison, by code point
CodePoints == <<" ", "+", "-", "0", "1", "2", "3", "4", "5", "6", "7", "8", "9">>
                  \o UpperLetters \o <<"_">> \o LowerLetters
code_point(c) == CHOOSE i \in 1..Len(CodePoints) : CodePoints[i] = c

RECURSIVE text_less(_, _)
text_less(a, b) ==
    IF b = <<>> THEN FALSE
    ELSE IF a = <<>> THEN TRUE
    ELSE IF a[1] = b[1] THEN text_less(Tail(a), Tail(b))
    ELSE code_point(a[1]) < code_point(b[1])

\* a < b is defined for two texts and for two numbers
comparable(a, b) == a.k = b.k /\ a.k \in {"str", "num"}

\* a < b for two cells that are comparable
cell_less(a, b) == IF a.k = "str" THEN text_less(a.s, b.s) ELSE a.n < b.n

\* (x['Cod articol'], x['Descriere']) < (y['Cod articol'], y['Descriere']):
\* the first components that differ are compared
sort_key_less(x, y) ==
    IF x.cod_articol # y.cod_articol THEN text_less(x.cod_articol, y.cod_articol)
    ELSE x.descriere # y.descriere /\ cell_less(x.descriere, y.descriere)

\* out.sort raises TypeError: rows of one code are compared by description,
\* and two of them hold descriptions that differ and are not comparable
sort_raises(out) ==
    \E i, j \in 1..Len(out) :
        /\ i < j
        /\ out[i].cod_articol = out[j].cod_articol
        /\ out[i].descriere # out[j].descriere
        /\ ~comparable(out[i].descriere, out[j].descriere)

\* the rows as the two passes appended them
unsorted_rows(out) == out

\* list.sort: stable
RECURSIVE sort_rows(_)
sort_rows(out) ==
    IF out = <<>> THEN <<>>
    ELSE LET sorted == sort_rows(SubSeq(out, 1, Len(out) - 1))
             x == out[Len(out)]
             at == Cardinality({i \in 1..Len(sorted) : ~sort_key_less(x, sorted[i])})
         IN SubSeq(sorted, 1, at) \o <<x>> \o SubSeq(sorted, at + 1, Len(sorted))

\* out before the sort: the rows of the coded groups, then of the uncoded ones
unsorted_out(rows) ==
    LET groups == group_rows(rows)
    IN aggregate_groups(groups.grouped, TRUE)
           \o aggregate_groups(groups.items_without_code_grouped, FALSE)

\* whether _create_centralizator_data(rows) raises, and what it returns if not
centralizator_raises(rows) == sort_raises(unsorted_out(rows))

create_centralizator_data(rows) ==
    LET groups == group_rows(rows)
    IN sort_rows(aggregate_groups(groups.grouped, TRUE)
                     \o aggregate_groups(groups.items_without_code_grouped, FALSE))

SortError == "TypeError: '<' not supported"

\* ------------------------------------------------------- extraction
\* _is_total_row: the keywords looked for in the description ("a_breve"
\* stands for the one non-ASCII letter of the list)
TotalKeywords ==
    {<<"t", "o", "t", "a", "l">>,
     <<"s", "u", "m", "a">>,
     <<"s", "u", "b", "t", "o", "t", "a", "l">>,
     <<"t", "o", "t", "a", "l", " ", "m", "a", "t", "e", "r", "i", "a", "l", "e">>,
     <<"t", "o", "t", "a", "l", " ", "g", "e", "n", "e", "r", "a", "l">>,
     <<"s", "u", "m", "a_breve">>,
     <<"s", "u", "m", "a", "r">>,
     <<"c", "o", "n", "s", "o", "l", "i", "d", "a", "t">>}

is_total_row(row) ==
    /\ row.descriere.k = "str"
    /\ \E kw \in TotalKeywords :
           contains(lower(strip(row.descriere.s)), kw) \/ lower(strip(row.descriere.s)) = kw

HeaderDescriptions ==
    {<<"d", "e", "s", "c", "r", "i", "e", "r", "e">>,
     <<"d", "e", "n", "u", "m", "i", "r", "e">>,
     <<"d", "e", "s", "c", "r", "i", "p", "t", "i", "o", "n">>}
HeaderPatterns ==
    {<<"d", "e", "n", "u", "m", "i", "r", "e">>,
     <<"c", "o", "d", " ", "a", "r", "t", "i", "c", "o", "l">>,
     <<"f", "u", "r", "n", "i", "z", "o", "r">>,
     <<"c", "a", "n", "t", "i", "t", "a", "t", "e">>,
     <<"p", ".", "u", ".">>,
     <<"p", "r", "e", "t", " ", "t", "o", "t", "a", "l">>}

\* str(row.get(field, '')).lower().strip()
lowered(cell) == strip(lower(pystr(cell)))

is_header_row(row) ==
    \/ \E kw \in HeaderDescriptions : contains(lowered(row.descriere), kw)
    \/ Cardinality({f \in {"descriere", "denumire", "cod_articol", "furnizor"} :
           \E kw \in HeaderPatterns : contains(lowered(row[f]), kw)}) >= MinHeaderLike

Placeholders == {<<"n", "o", "n", "e">>,
                <<"n", "/", "a">>,
                <<"-">>}

\* v is not None and str(v).strip() and str(v).strip().lower() not in placeholders
meaningful(cell) ==
    /\ cell.k # "none"
    /\ strip(pystr(cell)) # <<>>
    /\ lower(strip(pystr(cell))) \notin Placeholders

is_valid_item_row(row) ==
    /\ truthy(row.descriere)
    /\ strip(pystr(row.descriere)) # <<>>
    /\ ~is_header_row(row)
    /\ ~is_total_row(row)
    /\ Cardinality({f \in {"descriere", "denumire", "cod_articol", "furnizor", "cantitate"} :
           meaningful(row[f])}) >= MinMeaningful

\* _extract_data_from_sheet, header row detection.  A sheet is its max_row,
\* its max_column and the set of its cells [r, c, value] that are not None.
Indicators ==
    {<<"n", "r">>,
     <<"c", "r", "t">>,
     <<"d", "e", "s", "c", "r", "i", "e", "r", "e">>,
     <<"d", "e", "n", "u", "m", "i", "r", "e">>,
     <<"c", "o", "d">>,
     <<"f", "u", "r", "n", "i", "z", "o", "r">>,
     <<"c", "a", "n", "t", "i", "t", "a", "t", "e">>}

\* range(1, min(n, m + 1))
py_range(n, m) == 1..((IF n < m + 1 THEN n ELSE m + 1) - 1)

\* vals: str(v).strip().lower() of the cells of row r that are scanned
row_vals(sh, r) ==
    {lower(strip(pystr(x.value))) :
        x \in {y \in sh.cells : /\ y.r = r
                                /\ y.c \in py_range(HeaderScanCols, sh.max_column)
                                /\ truthy(y.value)}}

indicator_matches(sh, r) ==
    Cardinality({ind \in Indicators : \E cell \in row_vals(sh, r) : contains(cell, ind)})

\* the header row found, 0 for None
detect_header_row(sh) ==
    LET found == {r \in py_range(HeaderScanRows, sh.max_row) :
                     indicator_matches(sh, r) >= MinIndicators}
    IN IF found = {} THEN 0 ELSE Min(found)

\* _map_header: the keyword lists, in the order they are tried
NrCrtMarkers ==
    {<<"n", "r", ".", " ", "c", "r", "t">>,
     <<"n", "r", " ", "c", "r", "t">>,
     <<"n", "u", "m", "a", "r", " ", "c", "r", "t">>,
     <<"n", "r", ".", "c", "r", "t">>}
DescriereMarkers ==
    {<<"d", "e", "s", "c", "r", "i", "e", "r", "e">>,
     <<"d", "e", "s", "c", "r", "i", "p", "t", "i", "o", "n">>}
DenumireMarkers ==
    {<<"d", "e", "n", "u", "m", "i", "r", "e">>,
     <<"d", "e", "n", "o", "m", "i", "n", "a", "t", "i", "o", "n">>,
     <<"n", "u", "m", "e">>}
CodArticolMarkers ==
    {<<"c", "o", "d", " ", "a", "r", "t", "i", "c", "o", "l">>,
     <<"c", "o", "d", " ", "a", "r", "t">>,
     <<"a", "r", "t", "i", "c", "l", "e", " ", "c", "o", "d", "e">>,
     <<"c", "o", "d", " ", "p", "r", "o", "d", "u", "s">>,
     <<"c", "o", "d", "e">>}
FurnizorMarkers ==
    {<<"f", "u", "r", "n", "i", "z", "o", "r">>,
     <<"s", "u", "p", "p", "l", "i", "e", "r">>,
     <<"p", "r", "o", "v", "i", "d", "e", "r">>}
CantitateMarkers ==
    {<<"c", "a", "n", "t", "i", "t", "a", "t", "e">>,
     <<"q", "t", "y">>,
     <<"q", "u", "a", "n", "t", "i", "t", "y">>,
     <<"c", "a", "n", "t">>}
UnitMarkers ==
    {<<"p", ".", "u", ".">>,
     <<"p", "r", "e", "t", " ", "u", "n", "i", "t", "a", "r">>,
     <<"u", "n", "i", "t", " ", "p", "r", "i", "c", "e">>}
TotalMarkers ==
    {<<"p", "r", "e", "t", " ", "t", "o", "t", "a", "l">>,
     <<"t", "o", "t", "a", "l", " ", "p", "r", "i", "c", "e">>}
GreenMarkers ==
    {<<"t", "a", "x", "a">>,
     <<"v", "e", "r", "d", "e">>}
GreenUnitMarkers ==
    {<<"p", ".", "u", ".">>,
     <<"p", "r", "e", "t", " ", "u", "n", "i", "t", "a", "r">>}
GreenTotalMarkers ==
    {<<"p", "r", "e", "t", " ", "t", "o", "t", "a", "l">>,
     <<"t", "o", "t", "a", "l">>}

any_in(markers, h) == \E p \in markers : contains(h, p)

\* str.replace('\n', ' ')
fold_newlines(s) == [i \in 1..Len(s) |-> IF s[i] = "\n" THEN " " ELSE s[i]]

\* a mapping that tries the plain price rules without looking for a green-tax
\* marker
map_header_plain_first(text) ==
    LET h == fold_newlines(strip(lower(text)))
    IN IF any_in(NrCrtMarkers, h) THEN "nr_crt"
       ELSE IF any_in(DescriereMarkers, h) THEN "descriere"
       ELSE IF any_in(DenumireMarkers, h) THEN "denumire"
       ELSE IF any_in(CodArticolMarkers, h) THEN "cod_articol"
       ELSE IF any_in(FurnizorMarkers, h) THEN "furnizor"
       ELSE IF any_in(CantitateMarkers, h) THEN "cantitate"
       ELSE IF any_in(UnitMarkers, h) THEN "pu"
       ELSE IF any_in(TotalMarkers, h) THEN "pret_total"
       ELSE IF any_in(GreenUnitMarkers, h) /\ any_in(GreenMarkers, h) THEN "pu_taxa"
       ELSE IF any_in(GreenTotalMarkers, h) /\ any_in(GreenMarkers, h) THEN "pret_total_taxa"
       ELSE ""

\* the field a header cell is mapped to, "" for None
map_header(text) ==
    LET h == fold_newlines(strip(lower(text)))
    IN IF any_in(NrCrtMarkers, h) THEN "nr_crt"
       ELSE IF any_in(DescriereMarkers, h) THEN "descriere"
       ELSE IF any_in(DenumireMarkers, h) THEN "denumire"
       ELSE IF any_in(CodArticolMarkers, h) THEN "cod_articol"
       ELSE IF any_in(FurnizorMarkers, h) THEN "furnizor"
       ELSE IF any_in(CantitateMarkers, h) THEN "cantitate"
       ELSE IF any_in(UnitMarkers, h) /\ ~any_in(GreenMarkers, h) THEN "pu"
       ELSE IF any_in(TotalMarkers, h) /\ ~any_in(GreenMarkers, h) THEN "pret_total"
       ELSE IF any_in(GreenUnitMarkers, h) /\ any_in(GreenMarkers, h) THEN "pu_taxa"
       ELSE IF any_in(GreenTotalMarkers, h) /\ any_in(GreenMarkers, h) THEN "pret_total_taxa"
       ELSE ""

MappedFields ==
    {"nr_crt", "descriere", "denumire", "cod_articol", "furnizor", "cantitate",
     "pu", "pret_total", "pu_taxa", "pret_total_taxa"}

\* has_data: some mapped cell is not None and not blank
has_data(row) == \E f \in MappedFields : row[f].k # "none" /\ strip(pystr(row[f])) # <<>>

\* A sheet's rows are <<r, row_data>> in row order: row_data is what the header
\* map reads in row r; a row of the sheet that is not listed is blank.
\* The rows r in from..to that the row loop keeps, in order
RECURSIVE kept_rows(_, _, _)
kept_rows(rows, from, to) ==
    IF rows = <<>> THEN <<>>
    ELSE LET r == rows[1][1]
             row_data == rows[1][2]
             rest == kept_rows(Tail(rows), from, to)
         IN IF r >= from /\ r <= to /\ has_data(row_data) /\ is_valid_item_row(row_data)
            THEN <<row_data>> \o rest
            ELSE rest

\* the first row r >= from of the row loop at which the cancel flag is polled
next_poll(from) == IF from % PollEvery = 0 THEN from ELSE from + (PollEvery - (from % PollEvery))

\* ------------------------------------------- the stock index, alone
\* Specification SpecStock: a first workbook whose stock sheet holds up to
\* MaxStock data rows is read (the stock step of process_files), the index is
\* built, and article codes are looked up as the aggregation looks them up.
T_SUP == <<"S", "U", "P", "-", "0", "0", "0", "1", "2", "3">>
T_sup == <<"s", "u", "p", "-", "0", "0", "0", "1", "2", "3">>
T_X == <<"X", "-", "0", "0", "0", "1", "2", "3">>
T_AB1 == <<"A", "B", "1">>
T_ab_1 == <<"a", "b", " ", "1">>
T_000123 == <<"0", "0", "0", "1", "2", "3">>
T_00123 == <<"0", "0", "1", "2", "3">>
T_P000123 == <<"P", "-", "0", "0", "0", "1", "2", "3">>
T_B1 == <<"B", "1">>
T_Stoc == <<"S", "t", "o", "c">>

StockCodeCells == {Str(T_SUP), Str(T_sup), Str(T_X), Str(T_AB1), Str(T_ab_1)}
StockQtyCells == {None} \cup {Num(n) : n \in 0..MaxStockQty}
StockRows == [code : StockCodeCells, qty : StockQtyCells]
Queries == {T_000123, T_00123, T_P000123, T_sup, T_AB1, T_ab_1, T_B1}

StockSheet(rows) ==
    [name |-> T_Stoc, hrow |-> 0, maxrow |-> Len(rows) + 1, rows |-> <<>>,
     stock |-> [header |-> TRUE, cols |-> TRUE, raises |-> FALSE, rows |-> rows]]

File(extract, stock, copy, sheets) ==
    [opens |-> [extract |-> extract, stock |-> stock, copy |-> copy], sheets |-> sheets]

\* a processor on which nothing but the stock step has run
NoLookup == query = <<>> /\ found_qty = 0 /\ found_code = <<>>
NoSheet ==
    /\ header_text = <<>> /\ mapped = ""
    /\ row_read = <<>> /\ kept = FALSE
    /\ sheet_cells = <<>> /\ header_row = 0
NoStockIndex == stock_data = <<>> /\ stock_exact = <<>> /\ stock_by_suffix = <<>>
NoAggregation == grouped = <<>> /\ items_without_code_grouped = <<>> /\ cen_data = <<>>
NoExtraction ==
    /\ fi = 0 /\ si = 0 /\ ri = 0 /\ extracted = <<>> /\ data = <<>> /\ sheets_info = <<>>
    /\ consolidated_data = <<>> /\ row_counter = 1 /\ source_sheets = <<>>
NoOutput == wb_sheets = <<>> /\ ci = 0 /\ output_writable = TRUE /\ saved = FALSE
NoRun ==
    /\ cancel_event = FALSE /\ open_handles = 0
    /\ raised = "" /\ raised_at = "" /\ outcome = ""

InitStock ==
    /\ \E rows \in BoundedSeq(StockRows, MaxStock) :
           files = <<File(TRUE, TRUE, TRUE, <<StockSheet(rows)>>)>>
    /\ pc = "stock"
    /\ NoStockIndex /\ NoLookup /\ NoSheet /\ NoAggregation /\ NoExtraction /\ NoOutput /\ NoRun

\* process_files: self.stock_data = self._extract_stock_data(wb_tmp)
StockExtract ==
    /\ pc = "stock"
    /\ stock_data' = stock_step(files, files[1].opens.stock)
    /\ pc' = "index"
    /\ UNCHANGED <<files, stock_exact, stock_by_suffix, lookupVars, sheetVars, aggVars,
                   extractVars, outVars, runVars>>

\* process_files: self._build_stock_index()
StockBuildIndex ==
    /\ pc = "index"
    /\ stock_exact' = stock_exact_of(stock_data)
    /\ stock_by_suffix' = stock_by_suffix_of(stock_data)
    /\ pc' = "lookup"
    /\ UNCHANGED <<files, stock_data, lookupVars, sheetVars, aggVars, extractVars, outVars, runVars>>

\* _create_centralizator_data: the two lookups made for one article code
StockLookup ==
    /\ pc = "lookup"
    /\ \E q \in Queries :
           /\ query' = q
           /\ found_qty' = find_stock_quantity(q)
           /\ found_code' = find_stock_code(q)
    /\ UNCHANGED <<files, pc, stockVars, sheetVars, aggVars, extractVars, outVars, runVars>>

NextStock == StockExtract \/ StockBuildIndex \/ StockLookup

SpecStock == InitStock /\ [][NextStock]_vars

LookedUp == pc = "lookup" /\ query # <<>>

\* the entries of stock_data whose code, normalized, is the normalized query
ExactEntries(q) ==
    {i \in 1..Len(stock_data) : normalize_code(stock_data[i][1]) = normalize_code(q)}

\* the entries of the query's suffix bucket whose normalized code ends with the
\* normalized query
SuffixEntries(q) ==
    {i \in 1..Len(stock_data) :
        /\ last_chars(normalize_code(stock_data[i][1]), SuffixLen)
               = last_chars(normalize_code(q), SuffixLen)
        /\ endswith(normalize_code(stock_data[i][1]), normalize_code(q))}

\* C8: the stock quantity and the stock code of a lookup come from the same
\* entry: a non-empty code returned by find_stock_code is a stock entry whose
\* stored quantity is what find_stock_quantity returned, and the code is empty
\* exactly when no entry matches the query.
C8_QuantityAndCodeAgree ==
    LookedUp =>
        /\ found_code # <<>> =>
               /\ found_code \in DictKeys(stock_data)
               /\ found_qty = DictValue(stock_data, found_code)
        /\ found_code = <<>> <=> (ExactEntries(query) \cup SuffixEntries(query)) = {}

\* C9: with no exact entry for the normalized query, the lookup returns the
\* quantity and the original code of the first entry, in insertion order, of
\* the query's suffix bucket whose normalized code ends with the normalized query.
C9_FuzzyFirstInBucket ==
    (LookedUp /\ ExactEntries(query) = {} /\ SuffixEntries(query) # {}) =>
        /\ found_qty = stock_data[Min(SuffixEntries(query))][2]
        /\ found_code = stock_data[Min(SuffixEntries(query))][1]

\* querying "000123" finds the entry "SUP-000123" over a later "X-000123"
C9_Witness ==
    /\ LookedUp
    /\ query = T_000123
    /\ Len(stock_data) = 2
    /\ stock_data[1] = <<T_SUP, 2>>
    /\ stock_data[2] = <<T_X, 1>>
    /\ found_code = T_SUP
    /\ found_qty = 2

\* ------------------------------------------- the aggregation, alone
\* Specification SpecAgg: _create_centralizator_data applied to up to MaxRows
\* valid rows, as process_files hands them over (Nr. crt assigned), with a
\* stock index built from a stock sheet of one entry or from none.
T_W == <<"W">>
T_sp_AB1 == <<" ", "A", "B", "1">>
T_sp_W == <<" ", "W">>
T_A == <<"A">>

ItemRow(code, desc, qty, unit, total, tax_unit, tax_total) ==
    [descriere |-> desc, denumire |-> None, cod_articol |-> code, furnizor |-> None,
     cantitate |-> qty, pu |-> unit, pret_total |-> total,
     pu_taxa |-> tax_unit, pret_total_taxa |-> tax_total,
     sheet |-> None, nr_crt |-> None]

\* rows that differ in how they are keyed
GroupingRows ==
    {ItemRow(c, d, Num(2), Num(10), None, None, None) :
        c \in {Str(T_AB1), Str(T_ab_1), None}, d \in {Str(T_W), Str(T_AB1)}}

\* rows of one code that differ in quantity, unit price and own total
PricedRows ==
    {ItemRow(Str(T_AB1), Str(T_W), q, u, tot, None, None) :
        q \in {None, Num(0), Num(2), Num(3)},
        u \in {None, Num(10), Num(20)},
        tot \in {None, Num(50)}}

\* quantities 5 and 7 at unit price 3, one total omitted
ExampleRows ==
    {ItemRow(Str(T_AB1), Str(T_W), Num(5), Num(3), None, None, None),
     ItemRow(Str(T_AB1), Str(T_W), Num(7), Num(3), Num(21), None, None)}

\* rows with green-tax prices
GreenRows ==
    {ItemRow(Str(T_AB1), Str(T_W), Num(2), None, None, Num(1), None),
     ItemRow(Str(T_AB1), Str(T_W), Num(3), None, None, Num(2), Num(4)),
     ItemRow(Str(T_AB1), Str(T_W), Num(0), None, None, Num(2), None)}

\* cells typed as text, padded with blanks
TextRows ==
    {ItemRow(Str(T_sp_AB1), Str(T_sp_W), Str(<<"2">>), Str(<<" ", "1", "0">>),
             None, None, None)}

\* rows without a code whose description is a number
NumberRows ==
    {ItemRow(None, Num(d), Num(2), Num(10), None, None, None) : d \in {5, 9}}

\* rows whose quantity has decimals: a third to seven places, and a half
DecimalRows ==
    {ItemRow(c, Str(T_W), Dec(t), None, None, None, None) :
        c \in {Str(T_AB1), None}, t \in {3333333, 5000000}}

AggRows ==
    GroupingRows \cup PricedRows \cup ExampleRows \cup GreenRows \cup TextRows \cup NumberRows
        \cup DecimalRows

\* a numbering that starts again at 1 with every file
number_rows_per_file(rows, first) ==
    [i \in 1..Len(rows) |-> [rows[i] EXCEPT !.nr_crt = Num(i)]]

\* for row in file_data: row['Nr. crt'] = row_counter; consolidated_data.append(row)
number_rows(rows, first) ==
    [i \in 1..Len(rows) |-> [rows[i] EXCEPT !.nr_crt = Num(first + i - 1)]]

\* for row in extracted: row['Sheet'] = sheet_name
tag_rows(rows, sheet_name) ==
    [i \in 1..Len(rows) |-> [rows[i] EXCEPT !.sheet = Str(sheet_name)]]

AggStocks == {<<>>, <<<<T_ab_1, 1>>>>}

InitAgg ==
    /\ files = <<>>
    /\ pc = "aggregate"
    /\ \E rows \in BoundedSeq(AggRows, MaxRows) :
           /\ rows # <<>>
           /\ consolidated_data = number_rows(tag_rows(rows, T_A), 1)
           /\ row_counter = Len(rows) + 1
    /\ \E sd \in AggStocks :
           /\ stock_data = sd
           /\ stock_exact = stock_exact_of(sd)
           /\ stock_by_suffix = stock_by_suffix_of(sd)
    /\ fi = 0 /\ si = 0 /\ ri = 0 /\ extracted = <<>> /\ data = <<>> /\ sheets_info = <<>>
    /\ source_sheets = <<>>
    /\ NoLookup /\ NoSheet /\ NoAggregation /\ NoOutput /\ NoRun

\* _create_consolidated_workbook: cen_data = self._create_centralizator_data(data)
Aggregate ==
    /\ pc = "aggregate"
    /\ grouped' = group_rows(consolidated_data).grouped
    /\ items_without_code_grouped' = group_rows(consolidated_data).items_without_code_grouped
    /\ IF centralizator_raises(consolidated_data)
       THEN /\ raised' = SortError
            /\ pc' = "raised"
            /\ UNCHANGED cen_data
       ELSE /\ cen_data' = create_centralizator_data(consolidated_data)
            /\ pc' = "aggregated"
            /\ UNCHANGED raised
    /\ UNCHANGED <<files, stockVars, lookupVars, sheetVars, extractVars, outVars,
                   cancel_event, open_handles, raised_at, outcome>>

NextAgg == Aggregate

SpecAgg == InitAgg /\ [][NextAgg]_vars

Aggregated == pc = "aggregated"

\* the article code a row carries: str(it.get('Cod articol', '') or '').strip()
RowCode(it) == strip(str_or_empty(it.cod_articol))
CodedRows == {i \in 1..Len(consolidated_data) : RowCode(consolidated_data[i]) # <<>>}
UncodedRows == {i \in 1..Len(consolidated_data) : RowCode(consolidated_data[i]) = <<>>}

\* C2: two rows whose article codes are equal after normalization end up in
\* one and the same Centralizator row.
C2_GroupedByNormalizedCode ==
    Aggregated =>
        \A i \in CodedRows :
            Cardinality({k \in 1..Len(cen_data) :
                normalize_code(cen_data[k].cod_articol)
                    = normalize_code(RowCode(consolidated_data[i]))}) = 1

\* the rows a Centralizator row was built from
GroupOf(o) ==
    IF o.cod_articol # <<>> THEN DictValue(grouped, o.cod_articol)
    ELSE DictValue(items_without_code_grouped,
                   group_key([cod_articol |-> None, descriere |-> o.descriere,
                              denumire |-> o.denumire]).key)

ParsedOrZero(x) == IF to_float(x).k = "none" THEN 0 ELSE to_float(x).n

\* the parsed Quantity, missing taken as 0, in units of 1/Fine
ParsedQuantity(x) == IF to_float(x).k = "none" THEN 0 ELSE val(to_float(x))

\* v millionths is x / Fine rounded to 6 decimals
IsRoundedFine(v, x) ==
    /\ 2 * (10 * v - x) <= 10
    /\ 2 * (x - 10 * v) <= 10
HasPrice(it, unit) == to_float(it[unit]).k # "none"

\* C3: a group of a single row yields that row's own Quantity, UnitPrice and
\* GreenTaxUnitPrice, also when the Quantity is missing or 0.
C3_SingleRowUnchanged ==
    Aggregated =>
        \A k \in 1..Len(cen_data) :
            Len(GroupOf(cen_data[k])) = 1 =>
                LET it == GroupOf(cen_data[k])[1]
                    o == cen_data[k]
                IN /\ IsRoundedFine(o.cantitate, ParsedQuantity(it.cantitate))
                   /\ HasPrice(it, "pu") => o.pu = to_float(it.pu).n * Scale
                   /\ HasPrice(it, "pu_taxa") => o.pu_taxa = to_float(it.pu_taxa).n * Scale

RECURSIVE PricedQuantity(_, _)
PricedQuantity(items, unit) ==
    IF items = <<>> THEN 0
    ELSE (IF HasPrice(items[1], unit) THEN ParsedQuantity(items[1].cantitate) ELSE 0)
             + PricedQuantity(Tail(items), unit)

RECURSIVE PricedValue(_, _)
PricedValue(items, unit) ==
    IF items = <<>> THEN 0
    ELSE (IF HasPrice(items[1], unit)
          THEN to_float(items[1][unit]).n * ParsedQuantity(items[1].cantitate) ELSE 0)
             + PricedValue(Tail(items), unit)

\* v millionths is num / den rounded to 6 decimals
IsRounded(v, num, den) ==
    LET a == num \div gcd(num, den)
        h == gcd(Scale, den \div gcd(num, den))
        b == (den \div gcd(num, den)) \div h
    IN /\ 2 * (v * b - a * (Scale \div h)) <= b
       /\ 2 * (a * (Scale \div h) - v * b) <= b

WeightedAverageOf(o, field, unit) ==
    PricedQuantity(GroupOf(o), unit) > 0 =>
        IsRounded(o[field], PricedValue(GroupOf(o), unit), PricedQuantity(GroupOf(o), unit))

TwoAndThree ==
    consolidated_data = number_rows(tag_rows(
        <<ItemRow(Str(T_AB1), Str(T_W), Num(2), Num(10), None, None, None),
          ItemRow(Str(T_AB1), Str(T_W), Num(3), Num(20), None, None, None)>>, T_A), 1)

\* C4: where the rows of a group that give a unit price have a non-zero total
\* quantity, UnitPrice is sum(price * quantity) / sum(quantity) over those rows
\* alone, rounded to 6 decimals, and GreenTaxUnitPrice likewise; quantities 2
\* and 3 at unit prices 10 and 20 give UnitPrice 16 and Quantity 5.
C4_WeightedAverage ==
    Aggregated =>
        /\ \A k \in 1..Len(cen_data) :
               /\ WeightedAverageOf(cen_data[k], "pu", "pu")
               /\ WeightedAverageOf(cen_data[k], "pu_taxa", "pu_taxa")
        /\ TwoAndThree =>
               /\ Len(cen_data) = 1
               /\ cen_data[1].pu = 16 * Scale
               /\ cen_data[1].cantitate = 5 * Scale

C4_Witness == Aggregated /\ TwoAndThree /\ Len(cen_data) = 1 /\ cen_data[1].pu = 16 * Scale

\* a group of a priced and an unpriced row, both with a quantity
C4_WitnessUnpriced ==
    /\ Aggregated
    /\ Len(cen_data) = 1
    /\ Len(GroupOf(cen_data[1])) = 2
    /\ \E i, j \in 1..2 :
           /\ HasPrice(GroupOf(cen_data[1])[i], "pu")
           /\ ~HasPrice(GroupOf(cen_data[1])[j], "pu")
           /\ ParsedQuantity(GroupOf(cen_data[1])[i].cantitate) > 0
           /\ ParsedQuantity(GroupOf(cen_data[1])[j].cantitate) > 0

\* the row's own total if present, else its unit price (0 if missing) times
\* its quantity, in units of 1/Fine
RowTotal(it, unit, total) ==
    IF to_float(it[total]).k # "none" THEN val(to_float(it[total]))
    ELSE ParsedOrZero(it[unit]) * ParsedQuantity(it.cantitate)

RECURSIVE GroupTotal(_, _, _)
GroupTotal(items, unit, total) ==
    IF items = <<>> THEN 0
    ELSE RowTotal(items[Len(items)], unit, total)
             + GroupTotal(SubSeq(items, 1, Len(items) - 1), unit, total)

FiveAndSeven ==
    \/ consolidated_data = number_rows(tag_rows(
           <<ItemRow(Str(T_AB1), Str(T_W), Num(5), Num(3), None, None, None),
             ItemRow(Str(T_AB1), Str(T_W), Num(7), Num(3), Num(21), None, None)>>, T_A), 1)
    \/ consolidated_data = number_rows(tag_rows(
           <<ItemRow(Str(T_AB1), Str(T_W), Num(7), Num(3), Num(21), None, None),
             ItemRow(Str(T_AB1), Str(T_W), Num(5), Num(3), None, None, None)>>, T_A), 1)

\* C5: TotalPrice is the sum over the group's rows of the row's own total if
\* present, else unit price (0 if missing) times quantity, and likewise the
\* green-tax total; two rows of one code with quantities 5 and 7 at unit price
\* 3, one total omitted, give one row with Quantity 12, UnitPrice 3, TotalPrice 36.
C5_TotalPrice ==
    Aggregated =>
        /\ \A k \in 1..Len(cen_data) :
               /\ IsRoundedFine(cen_data[k].pret_total,
                                GroupTotal(GroupOf(cen_data[k]), "pu", "pret_total"))
               /\ IsRoundedFine(cen_data[k].pret_total_taxa,
                                GroupTotal(GroupOf(cen_data[k]), "pu_taxa", "pret_total_taxa"))
        /\ FiveAndSeven =>
               /\ Len(cen_data) = 1
               /\ cen_data[1].cantitate = 12 * Scale
               /\ cen_data[1].pu = 3 * Scale
               /\ cen_data[1].pret_total = 36 * Scale

C5_Witness ==
    Aggregated /\ FiveAndSeven /\ Len(cen_data) = 1 /\ cen_data[1].pret_total = 36 * Scale

\* the Centralizator rows of the groups of one of the two dicts
RowsOfGroups(groups, coded) ==
    {aggregate_group(groups[g][1], groups[g][2], coded) : g \in 1..Len(groups)}

\* C6: a row without an article code is never aggregated with a row that has
\* one: every group, and so every Centralizator row, is built from coded rows
\* only or from uncoded rows only, whatever the descriptions.
C6_GroupingIsolation ==
    Aggregated =>
        /\ \A g \in 1..Len(grouped) :
               \A m \in 1..Len(grouped[g][2]) : RowCode(grouped[g][2][m]) # <<>>
        /\ \A g \in 1..Len(items_without_code_grouped) :
               \A m \in 1..Len(items_without_code_grouped[g][2]) :
                   RowCode(items_without_code_grouped[g][2][m]) = <<>>
        /\ Len(cen_data) = Len(grouped) + Len(items_without_code_grouped)
        /\ \A k \in 1..Len(cen_data) :
               IF cen_data[k].cod_articol # <<>>
               THEN cen_data[k] \in RowsOfGroups(grouped, TRUE)
               ELSE cen_data[k] \in RowsOfGroups(items_without_code_grouped, FALSE)
        /\ (CodedRows # {} /\ UncodedRows # {}) => Len(cen_data) >= 2

\* an uncoded row described "AB1" beside a row of code "AB1" with the same description
C6_Witness ==
    /\ Aggregated
    /\ Len(consolidated_data) = 2
    /\ RowCode(consolidated_data[1]) = <<>>
    /\ consolidated_data[1].descriere = Str(T_AB1)
    /\ RowCode(consolidated_data[2]) = T_AB1
    /\ consolidated_data[2].descriere = Str(T_AB1)
    /\ Len(cen_data) = 2

\* --------------------------------------------------- the whole run
\* Specification Spec: the worker thread runs process_files over one to
\* MaxFiles input workbooks while the front-end may set the cancel flag at any
\* moment; each worker action runs from one poll of the flag to the next.
T_Cumulative == <<"C", "u", "m", "u", "l", "a", "t", "i", "v", "e">>
T_Centralizator == <<"C", "e", "n", "t", "r", "a", "l", "i", "z", "a", "t", "o", "r">>
T_STOCK == <<"S", "T", "O", "C", "K">>
T_E == <<"E">>
T_Total == <<"T", "o", "t", "a", "l">>

\* a row as the header map reads it from a sheet that has a "Nr. crt" column
SheetRow(nr, code, desc, qty, unit) ==
    [ItemRow(code, desc, qty, unit, None, None, None) EXCEPT !.nr_crt = nr]

NoStock == [header |-> FALSE, cols |-> FALSE, raises |-> FALSE, rows |-> <<>>]

\* header in row 1; an item in row 2 and a summary row in row 3
S_A ==
    [name |-> T_A, hrow |-> 1, maxrow |-> 3, stock |-> NoStock,
     rows |-> <<<<2, SheetRow(Num(7), Str(T_AB1), Str(T_W), Num(2), Num(10))>>,
                <<3, SheetRow(None, None, Str(T_Total), Num(2), Num(10))>>>>]

\* a sheet of the same name with header in row 24 and items in rows 25 and 50
S_A50 ==
    [name |-> T_A, hrow |-> 24, maxrow |-> 50, stock |-> NoStock,
     rows |-> <<<<25, SheetRow(Num(1), None, Str(T_W), Num(3), None)>>,
                <<50, SheetRow(Num(1), Str(T_ab_1), Str(T_W), Num(3), Num(20))>>>>]

\* a sheet in which no header row is found
S_E ==
    [name |-> T_E, hrow |-> 0, maxrow |-> 2, stock |-> NoStock,
     rows |-> <<<<2, SheetRow(None, Str(T_AB1), Str(T_W), Num(2), None)>>>>]

\* a stock sheet; item extraction finds no header row in it
S_Stoc == StockSheet(<<[code |-> Str(T_ab_1), qty |-> Num(1)]>>)

\* a stock sheet with a cell in row 25 whose reading raises: the stock loop
\* reads every row and raises after its first entries, the header detection
\* of the item extraction stops at row 24 and finds no header
S_STOCK_bad ==
    [name |-> T_STOCK, hrow |-> 0, maxrow |-> 25, rows |-> <<>>,
     stock |-> [header |-> TRUE, cols |-> TRUE, raises |-> TRUE,
                rows |-> <<[code |-> Str(T_AB1), qty |-> Num(2)]>>]]

\* sheets without a header row, named like an uniquified name and like a
\* derived sheet
T_A_2 == <<"A", "_", "2">>
S_A_2 == [S_E EXCEPT !.name = T_A_2]
S_Cumulative == [S_E EXCEPT !.name = T_Cumulative]

\* a stock sheet with the columns Cod articol, Descriere, Cantitate and Stoc:
\* its first row has three of the header indicators
S_Stoc_items ==
    [name |-> T_Stoc, hrow |-> 1, maxrow |-> 2,
     rows |-> <<<<2, SheetRow(None, Str(T_AB1), Str(T_W), Num(2), None)>>>>,
     stock |-> [header |-> TRUE, cols |-> TRUE, raises |-> FALSE,
                rows |-> <<[code |-> Str(T_AB1), qty |-> Num(1)]>>]]

FileUniverse ==
    {File(TRUE, TRUE, TRUE, <<S_A, S_Stoc>>),
     File(TRUE, TRUE, TRUE, <<S_A, S_Stoc_items>>),
     File(TRUE, TRUE, TRUE, <<S_A, S_A_2, S_Cumulative>>),
     File(TRUE, TRUE, TRUE, <<S_A50>>),
     File(TRUE, TRUE, TRUE, <<S_E>>),
     File(TRUE, TRUE, TRUE, <<S_A, S_STOCK_bad>>),
     File(TRUE, FALSE, TRUE, <<S_A, S_Stoc>>),
     File(TRUE, TRUE, FALSE, <<S_A>>),
     File(FALSE, FALSE, FALSE, <<>>)}

\* _process_files has cleared the flag and started the worker thread
Init ==
    /\ \E fs \in BoundedSeq(FileUniverse, MaxFiles) : fs # <<>> /\ files = fs
    /\ output_writable \in BOOLEAN
    /\ pc = "start"
    /\ wb_sheets = <<>> /\ ci = 0 /\ saved = FALSE
    /\ NoStockIndex /\ NoLookup /\ NoSheet /\ NoAggregation /\ NoExtraction /\ NoRun

\* raise exc; at is the poll point whose _check_cancel started it, if any
Raise(exc, at) == raised' = exc /\ raised_at' = at /\ pc' = "raised"

Cancelled == "ExcelProcessingCancelled"
ReadError == "ValueError: Error reading"
NoDataError == "ValueError: No data was extracted"
CopyError == "Exception: load_workbook"
WriteError == "PermissionError: Cannot write"

\* _cancel_processing, on the front-end's thread
Cancel ==
    /\ pc # "done"
    /\ cancel_event' = TRUE
    /\ UNCHANGED <<files, pc, stockVars, lookupVars, sheetVars, aggVars, extractVars, outVars,
                   open_handles, raised, raised_at, outcome>>

\* process_files up to the loop over the files
ProcessFilesStart ==
    /\ pc = "start"
    /\ IF cancel_event
       THEN /\ Raise(Cancelled, "start")
            /\ UNCHANGED <<fi, consolidated_data, row_counter, source_sheets>>
       ELSE /\ consolidated_data' = <<>>
            /\ row_counter' = 1
            /\ source_sheets' = <<>>
            /\ fi' = 1
            /\ pc' = "file"
            /\ UNCHANGED <<raised, raised_at>>
    /\ UNCHANGED <<files, stockVars, lookupVars, sheetVars, aggVars, si, ri, extracted, data,
                   sheets_info, outVars, cancel_event, open_handles, outcome>>

\* the loop body up to the two load_workbook calls of _extract_data_from_file
OpenFile ==
    /\ pc = "file"
    /\ IF cancel_event
       THEN /\ Raise(Cancelled, "file")
            /\ UNCHANGED <<si, data, sheets_info, open_handles>>
       ELSE IF ~files[fi].opens.extract
       THEN /\ Raise(ReadError, "")
            /\ UNCHANGED <<si, data, sheets_info, open_handles>>
       ELSE /\ open_handles' = open_handles + 2
            /\ data' = <<>>
            /\ sheets_info' = <<>>
            /\ si' = 1
            /\ pc' = "sheet"
            /\ UNCHANGED <<raised, raised_at>>
    /\ UNCHANGED <<files, stockVars, lookupVars, sheetVars, aggVars, fi, ri, extracted,
                   consolidated_data, row_counter, source_sheets, outVars,
                   cancel_event, outcome>>

\* one turn of the loop over the sheets, up to the row loop of
\* _extract_data_from_sheet; _check_cancel raises inside the try whose
\* "except Exception" turns whatever is raised into the read error
ExtractSheet ==
    /\ pc = "sheet"
    /\ si <= Len(files[fi].sheets)
    /\ LET sh == files[fi].sheets[si]
       IN IF cancel_event
          THEN /\ Raise(ReadError, "sheet")
               /\ open_handles' = open_handles - 2
               /\ UNCHANGED <<si, ri, extracted, sheets_info>>
          ELSE IF sh.hrow = 0
          THEN /\ sheets_info' = Append(sheets_info, [name |-> sh.name, file_path |-> fi])
               /\ si' = si + 1
               /\ UNCHANGED <<pc, ri, extracted, open_handles, raised, raised_at>>
          ELSE /\ extracted' = <<>>
               /\ ri' = sh.hrow + 1
               /\ pc' = "rows"
               /\ UNCHANGED <<si, sheets_info, open_handles, raised, raised_at>>
    /\ UNCHANGED <<files, stockVars, lookupVars, sheetVars, aggVars, fi, data, consolidated_data,
                   row_counter, source_sheets, outVars, cancel_event, outcome>>

\* the row loop from row ri to the row before its next poll, and, past the
\* last row, the rest of the turn of the loop over the sheets
ExtractRows ==
    /\ pc = "rows"
    /\ LET sh == files[fi].sheets[si]
           to == IF next_poll(ri + 1) - 1 < sh.maxrow THEN next_poll(ri + 1) - 1 ELSE sh.maxrow
       IN IF ri > sh.maxrow
          THEN /\ data' = data \o tag_rows(extracted, sh.name)
               /\ sheets_info' = Append(sheets_info, [name |-> sh.name, file_path |-> fi])
               /\ si' = si + 1
               /\ extracted' = <<>>
               /\ pc' = "sheet"
               /\ UNCHANGED <<ri, open_handles, raised, raised_at>>
          ELSE IF ri % PollEvery = 0 /\ cancel_event
          THEN /\ Raise(ReadError, "rows")
               /\ open_handles' = open_handles - 2
               /\ UNCHANGED <<si, ri, extracted, data, sheets_info>>
          ELSE /\ extracted' = extracted \o kept_rows(sh.rows, ri, to)
               /\ ri' = to + 1
               /\ UNCHANGED <<pc, si, data, sheets_info, open_handles, raised, raised_at>>
    /\ UNCHANGED <<files, stockVars, lookupVars, sheetVars, aggVars, fi, consolidated_data,
                   row_counter, source_sheets, outVars, cancel_event, outcome>>

\* a CloseFile that goes on to the stock step with no rows at all
CloseFile_without_empty_check ==
    /\ pc = "sheet"
    /\ si > Len(files[fi].sheets)
    /\ open_handles' = open_handles - 2
    /\ source_sheets' = source_sheets \o sheets_info
    /\ consolidated_data' = consolidated_data \o number_rows(data, row_counter)
    /\ row_counter' = row_counter + Len(data)
    /\ fi' = fi + 1
    /\ pc' = IF fi < Len(files) THEN "file" ELSE "stock"
    /\ UNCHANGED <<raised, raised_at>>
    /\ UNCHANGED <<files, stockVars, lookupVars, sheetVars, aggVars, si, ri, extracted, data,
                   sheets_info, outVars, cancel_event, outcome>>

\* past the last sheet: the workbooks are closed, the rows numbered and
\* appended, and after the last file an empty result is an error
CloseFile ==
    /\ pc = "sheet"
    /\ si > Len(files[fi].sheets)
    /\ open_handles' = open_handles - 2
    /\ source_sheets' = source_sheets \o sheets_info
    /\ consolidated_data' = consolidated_data \o number_rows(data, row_counter)
    /\ row_counter' = row_counter + Len(data)
    /\ fi' = fi + 1
    /\ IF fi < Len(files)
       THEN pc' = "file" /\ UNCHANGED <<raised, raised_at>>
       ELSE IF consolidated_data' = <<>>
       THEN Raise(NoDataError, "")
       ELSE pc' = "stock" /\ UNCHANGED <<raised, raised_at>>
    /\ UNCHANGED <<files, stockVars, lookupVars, sheetVars, aggVars, si, ri, extracted, data,
                   sheets_info, outVars, cancel_event, outcome>>

\* the stock step: nothing raised in it leaves it
ExtractStock ==
    /\ pc = "stock"
    /\ IF cancel_event
       THEN /\ Raise(Cancelled, "stock")
            /\ UNCHANGED stockVars
       ELSE /\ stock_data' = stock_step(files, files[1].opens.stock)
            /\ stock_exact' = stock_exact_of(stock_data')
            /\ stock_by_suffix' = stock_by_suffix_of(stock_data')
            /\ pc' = "create"
            /\ UNCHANGED <<raised, raised_at>>
    /\ UNCHANGED <<files, lookupVars, sheetVars, aggVars, extractVars, outVars, cancel_event,
                   open_handles, outcome>>

\* process_files: the poll before _create_consolidated_workbook
CreateWorkbook ==
    /\ pc = "create"
    /\ IF cancel_event
       THEN Raise(Cancelled, "create")
       ELSE pc' = "write" /\ UNCHANGED <<raised, raised_at>>
    /\ UNCHANGED <<files, stockVars, lookupVars, sheetVars, aggVars, extractVars, outVars,
                   cancel_event, open_handles, outcome>>

\* _create_consolidated_workbook from its poll through the Cumulative sheet
WriteCumulative ==
    /\ pc = "write"
    /\ IF cancel_event
       THEN /\ Raise(Cancelled, "write")
            /\ UNCHANGED <<wb_sheets, open_handles>>
       ELSE /\ open_handles' = open_handles + 1
            /\ wb_sheets' = <<T_Cumulative>>
            /\ pc' = "centralizator"
            /\ UNCHANGED <<raised, raised_at>>
    /\ UNCHANGED <<files, stockVars, lookupVars, sheetVars, aggVars, extractVars, ci,
                   output_writable, saved, cancel_event, outcome>>

\* the aggregation and the Centralizator sheet, up to the loop over the source
\* sheets: the flag is not polled here
WriteCentralizator ==
    /\ pc = "centralizator"
    /\ wb_sheets' = Append(wb_sheets, T_Centralizator)
    /\ grouped' = group_rows(consolidated_data).grouped
    /\ items_without_code_grouped' =
           group_rows(consolidated_data).items_without_code_grouped
    /\ IF centralizator_raises(consolidated_data)
       THEN /\ Raise(SortError, "")
            /\ open_handles' = open_handles - 1
            /\ UNCHANGED <<cen_data, ci>>
       ELSE /\ cen_data' = create_centralizator_data(consolidated_data)
            /\ ci' = 1
            /\ pc' = "copy"
            /\ UNCHANGED <<open_handles, raised, raised_at>>
    /\ UNCHANGED <<files, stockVars, lookupVars, sheetVars, extractVars, output_writable, saved,
                   cancel_event, outcome>>

\* base_name, or base_name_idx for the first idx >= 2 that is free
RECURSIVE unique_from(_, _, _)
unique_from(base_name, idx, names) ==
    IF base_name \o <<"_">> \o DecimalText(idx) \notin names
    THEN base_name \o <<"_">> \o DecimalText(idx)
    ELSE unique_from(base_name, idx + 1, names)

\* a naming that takes the source name as it is
unique_name_as_is(base_name, names) == base_name

unique_name(base_name, names) ==
    IF base_name \notin names THEN base_name ELSE unique_from(base_name, 2, names)

SheetNames == {wb_sheets[i] : i \in 1..Len(wb_sheets)}

\* a CopySheet that leaves the output workbook open when it raises
CopySheet_without_finally ==
    /\ pc = "copy"
    /\ ci <= Len(source_sheets)
    /\ IF cancel_event
       THEN /\ Raise(Cancelled, "copy")
            /\ UNCHANGED <<wb_sheets, ci, open_handles>>
       ELSE /\ wb_sheets' = Append(wb_sheets, unique_name(source_sheets[ci].name, SheetNames))
            /\ IF ~files[source_sheets[ci].file_path].opens.copy
               THEN /\ Raise(CopyError, "")
                    /\ UNCHANGED <<ci, open_handles>>
               ELSE /\ ci' = ci + 1
                    /\ UNCHANGED <<pc, open_handles, raised, raised_at>>
    /\ UNCHANGED <<files, stockVars, lookupVars, sheetVars, aggVars, extractVars, output_writable,
                   saved, cancel_event, outcome>>

\* one turn of the loop over the source sheets; the output workbook is closed
\* on the way out of whatever is raised
CopySheet ==
    /\ pc = "copy"
    /\ ci <= Len(source_sheets)
    /\ IF cancel_event
       THEN /\ Raise(Cancelled, "copy")
            /\ open_handles' = open_handles - 1
            /\ UNCHANGED <<wb_sheets, ci>>
       ELSE /\ wb_sheets' = Append(wb_sheets, unique_name(source_sheets[ci].name, SheetNames))
            /\ IF ~files[source_sheets[ci].file_path].opens.copy
               THEN /\ Raise(CopyError, "")
                    /\ open_handles' = open_handles - 1
                    /\ UNCHANGED ci
               ELSE /\ ci' = ci + 1
                    /\ UNCHANGED <<pc, open_handles, raised, raised_at>>
    /\ UNCHANGED <<files, stockVars, lookupVars, sheetVars, aggVars, extractVars, output_writable,
                   saved, cancel_event, outcome>>

\* past the last source sheet: the poll, wb.save and wb.close
SaveWorkbook ==
    /\ pc = "copy"
    /\ ci > Len(source_sheets)
    /\ open_handles' = open_handles - 1
    /\ IF cancel_event
       THEN Raise(Cancelled, "save") /\ UNCHANGED saved
       ELSE IF ~output_writable
       THEN Raise(WriteError, "") /\ UNCHANGED saved
       ELSE saved' = TRUE /\ pc' = "returned" /\ UNCHANGED <<raised, raised_at>>
    /\ UNCHANGED <<files, stockVars, lookupVars, sheetVars, aggVars, extractVars, wb_sheets, ci,
                   output_writable, cancel_event, outcome>>

\* _process_files_thread after process_files has returned
ReportReturn ==
    /\ pc = "returned"
    /\ outcome' = IF cancel_event THEN "Cancelled." ELSE "Processing completed."
    /\ pc' = "done"
    /\ UNCHANGED <<files, stockVars, lookupVars, sheetVars, aggVars, extractVars, outVars,
                   cancel_event, open_handles, raised, raised_at>>

\* _process_files_thread: the two except clauses
ReportException ==
    /\ pc = "raised"
    /\ outcome' = IF raised = Cancelled THEN "Cancelled." ELSE "Error during processing"
    /\ pc' = "done"
    /\ UNCHANGED <<files, stockVars, lookupVars, sheetVars, aggVars, extractVars, outVars,
                   cancel_event, open_handles, raised, raised_at>>

Next ==
    \/ Cancel
    \/ ProcessFilesStart
    \/ OpenFile
    \/ ExtractSheet
    \/ ExtractRows
    \/ CloseFile
    \/ ExtractStock
    \/ CreateWorkbook
    \/ WriteCumulative
    \/ WriteCentralizator
    \/ CopySheet
    \/ SaveWorkbook
    \/ ReportReturn
    \/ ReportException

Spec == Init /\ [][Next]_vars

\* ------------------------------------------------ cancellation

\* the run ended on an exception that a poll of the cancel flag started
AbortedByPoll == raised_at # ""

\* C1: whenever a run aborts because a poll point saw the cancel flag set
\* (before a file, before a sheet, every 50 rows, before the stock step, before
\* writing, before a sheet copy, before the save), what process_files raises
\* is the cancellation and what is reported is "Cancelled.", never an error.
C1_CancelNeverError ==
    AbortedByPoll =>
        /\ raised = Cancelled
        /\ outcome \in {"", "Cancelled."}

\* ------------------------------------------- the Cumulative rows

\* the rows of a sheet that are items, in row order, with the sheet's name
ValidRowsOf(sh) ==
    LET IsItem(e) ==
            /\ sh.hrow > 0 /\ e[1] > sh.hrow /\ e[1] <= sh.maxrow
            /\ has_data(e[2]) /\ is_valid_item_row(e[2])
        items == SelectSeq(sh.rows, IsItem)
    IN [i \in 1..Len(items) |-> [items[i][2] EXCEPT !.sheet = Str(sh.name)]]

RECURSIVE RowsOfSheets(_, _)
RowsOfSheets(f, n) ==
    IF n = 0 THEN <<>> ELSE RowsOfSheets(f, n - 1) \o ValidRowsOf(f.sheets[n])

RECURSIVE RowsOfFiles(_)
RowsOfFiles(n) ==
    IF n = 0 THEN <<>>
    ELSE RowsOfFiles(n - 1) \o RowsOfSheets(files[n], Len(files[n].sheets))

\* the number of files whose rows have been appended
FilesDone == IF fi = 0 THEN 0 ELSE fi - 1

\* C7: the consolidated rows are the valid rows of the files extracted so far,
\* in file order, then sheet order, then row order, and the k-th row carries
\* Nr. crt k, counted on across the files, whatever number the sheet held.
C7_CumulativeOrder ==
    /\ Len(consolidated_data) = Len(RowsOfFiles(FilesDone))
    /\ \A k \in 1..Len(consolidated_data) :
           consolidated_data[k] = [RowsOfFiles(FilesDone)[k] EXCEPT !.nr_crt = Num(k)]

\* two files are extracted; the third row comes from the second file, whose
\* sheet numbered it 7
C7_Witness ==
    /\ pc = "stock"
    /\ Len(files) = 2
    /\ Len(consolidated_data) = 3
    /\ RowsOfFiles(1) # <<>>
    /\ RowsOfFiles(2)[3].nr_crt = Num(7)
    /\ consolidated_data[3].nr_crt = Num(3)

\* ------------------------------------------------ stock problems

\* the first file has no stock sheet, or opening or reading it raises
StockProblem ==
    \/ ~files[1].opens.stock
    \/ \A i \in 1..Len(files[1].sheets) :
           lower(files[1].sheets[i].name) \notin StockSheetNames
    \/ \E i \in 1..Len(files[1].sheets) :
           /\ lower(files[1].sheets[i].name) \in StockSheetNames
           /\ \A j \in 1..(i - 1) : lower(files[1].sheets[j].name) \notin StockSheetNames
           /\ files[1].sheets[i].stock.raises

\* the run has gone past the stock step
PastStockStep ==
    \/ pc \in {"create", "write", "centralizator", "copy", "returned"}
    \/ saved
    \/ raised_at \in {"create", "write", "copy", "save"}
    \/ raised \in {CopyError, WriteError}

\* nothing else stops the run: no cancel, the sheets can be copied and the
\* output file written
NothingElseFails ==
    /\ ~cancel_event
    /\ output_writable
    /\ \A i \in 1..Len(source_sheets) : files[source_sheets[i].file_path].opens.copy

\* C10: with a stock problem the run goes on past the stock step with an empty
\* stock index, every Centralizator row gets stock quantity 0 and an empty
\* stock code, and the output is written and saved.
C10_StockProblemsNeverFail ==
    StockProblem =>
        /\ raised \in {"", Cancelled, ReadError, NoDataError, CopyError, WriteError}
        /\ PastStockStep => NoStockIndex
        /\ \A i \in 1..Len(cen_data) : cen_data[i].stoc = 0 /\ cen_data[i].cod_stoc = <<>>
        /\ (pc = "done" /\ PastStockStep /\ NothingElseFails) =>
               saved /\ outcome = "Processing completed."

\* a saved run whose stock sheet could not be read, with a coded row
C10_Witness ==
    /\ StockProblem
    /\ \E i \in 1..Len(files[1].sheets) : files[1].sheets[i].stock.raises
    /\ pc = "done" /\ saved /\ outcome = "Processing completed."
    /\ \E i \in 1..Len(cen_data) : cen_data[i].cod_articol # <<>>

\* ------------------------------------------------ file read failure

\* whether the message of what was raised names the input file: line 512
\* builds it from the file's name; what load_workbook raises at the copy is
\* passed on as it is
names_file(exc) == exc = ReadError

\* input file i could not be opened: by the extraction, or by the copy of one
\* of its sheets
OpenFailedAt(i) ==
    \/ raised = ReadError /\ raised_at = "" /\ fi = i
    \/ raised = CopyError /\ source_sheets[ci].file_path = i

\* C11: if an input file cannot be opened or parsed, the run aborts with an
\* error whose message names that file, and no output workbook is saved.
C11_ReadFailureNamesFile ==
    \A i \in 1..Len(files) :
        OpenFailedAt(i) =>
            /\ names_file(raised)
            /\ ~saved
            /\ outcome \in {"", "Error during processing"}

\* ------------------------------------------------ empty result

\* every input file has been read to its end
AllFilesRead == fi > Len(files)

\* C12: when every file is read and none holds a valid row, the run fails with
\* the "No data was extracted" error, which is not the read error; the stock
\* step is not entered and nothing is written or saved.
C12_EmptyResultIsFatal ==
    /\ NoDataError # ReadError
    /\ (AllFilesRead /\ RowsOfFiles(Len(files)) = <<>>) =>
           /\ pc \in {"raised", "done"}
           /\ raised = NoDataError
           /\ NoStockIndex
           /\ wb_sheets = <<>> /\ ~saved
           /\ outcome \in {"", "Error during processing"}
    /\ raised = NoDataError => AllFilesRead /\ consolidated_data = <<>>

\* two readable files without a header row; the error has been reported
C12_Witness ==
    /\ Len(files) = 2
    /\ \A i \in 1..Len(files) : files[i].opens.extract
    /\ raised = NoDataError
    /\ outcome = "Error during processing"

\* ------------------------------------------------ workbook handles

\* process_files has returned or raised
Exited == pc \in {"raised", "returned", "done"}

RECURSIVE SheetsOfFiles(_)
SheetsOfFiles(n) ==
    IF n = 0 THEN <<>>
    ELSE SheetsOfFiles(n - 1)
             \o [i \in 1..Len(files[n].sheets) |-> files[n].sheets[i].name]

Suffixed(base, k) == base \o <<"_">> \o DecimalText(k)

\* the name a copy of sheet base gets when the names in earlier are taken
ExpectedName(base, earlier) ==
    IF base \notin earlier THEN base
    ELSE Suffixed(base, CHOOSE k \in 2..(Cardinality(earlier) + 2) :
                            /\ Suffixed(base, k) \notin earlier
                            /\ \A j \in 2..(k - 1) : Suffixed(base, j) \in earlier)

NamesBefore(i) == {wb_sheets[j] : j \in 1..(i - 1)}

\* C14: a saved workbook has Cumulative first, Centralizator second, then one
\* copy per sheet of every input file in file order then sheet order; the
\* names are pairwise distinct; a copy keeps its source name if no earlier
\* sheet has it and else gets the suffix _k for the smallest free k >= 2.
C14_OutputSheets ==
    saved =>
        /\ Len(wb_sheets) = 2 + Len(SheetsOfFiles(Len(files)))
        /\ wb_sheets[1] = T_Cumulative
        /\ wb_sheets[2] = T_Centralizator
        /\ \A i \in 3..Len(wb_sheets) :
               wb_sheets[i] = ExpectedName(SheetsOfFiles(Len(files))[i - 2], NamesBefore(i))
        /\ \A i, j \in 1..Len(wb_sheets) : i # j => wb_sheets[i] # wb_sheets[j]

\* a saved workbook in which a second sheet A found A_2 taken, and a source
\* sheet called Cumulative was renamed
C14_Witness ==
    /\ saved
    /\ \E i \in 3..Len(wb_sheets) : wb_sheets[i] = Suffixed(T_A, 3)
    /\ \E i \in 3..Len(wb_sheets) : wb_sheets[i] = Suffixed(T_Cumulative, 2)

\* ------------------------------------------------ the order of the rows

\* (code, description) of row x is at most that of row y, as strings
KeyAtMost(x, y) ==
    IF x.cod_articol = y.cod_articol
    THEN x.descriere = y.descriere \/ cell_less(x.descriere, y.descriere)
    ELSE text_less(x.cod_articol, y.cod_articol)

\* C15: the returned list is ascending by (article code, description) under
\* string comparison: the rows with an empty code come before every row with a
\* code, and no two rows with a code share it.
C15_SortedByCodeThenDescription ==
    Aggregated =>
        /\ \A i, j \in 1..Len(cen_data) : i < j => KeyAtMost(cen_data[i], cen_data[j])
        /\ \A i, j \in 1..Len(cen_data) :
               (cen_data[i].cod_articol = <<>> /\ cen_data[j].cod_articol # <<>>) => i < j
        /\ \A i, j \in 1..Len(cen_data) :
               (i # j /\ cen_data[i].cod_articol # <<>>) =>
                   cen_data[i].cod_articol # cen_data[j].cod_articol

\* a row with a code was read before a row without one, and comes after it
C15_Witness ==
    /\ Aggregated
    /\ Len(consolidated_data) = 2 /\ Len(cen_data) = 2
    /\ truthy(consolidated_data[1].cod_articol)
    /\ ~truthy(consolidated_data[2].cod_articol)
    /\ cen_data[1].cod_articol = <<>>
    /\ cen_data[2].cod_articol # <<>>

\* ------------------------------------------------ the stock sheet's rows

\* the stock sheet: the first sheet of the first file with a stock name
HasStockSheet == stock_sheets_of(files[1]) # {}
StockSheetName == files[1].sheets[Min(stock_sheets_of(files[1]))].name

\* a consolidated row read from the stock sheet
FromStockSheet(row) ==
    /\ HasStockSheet
    /\ row.nr_crt.n <= Len(RowsOfFiles(1))
    /\ row.sheet = Str(StockSheetName)

\* C16: the stock sheet is consulted for the stock columns only: none of its
\* rows is a row of the Cumulative sequence, and the Centralizator rows are
\* those aggregated from the rows of the other sheets.
C16_StockSheetOnlyAnnotates ==
    FilesDone >= 1 =>
        /\ \A k \in 1..Len(consolidated_data) : ~FromStockSheet(consolidated_data[k])
        /\ pc \in {"copy", "returned"} =>
               cen_data = create_centralizator_data(
                              SelectSeq(consolidated_data, LAMBDA row : ~FromStockSheet(row)))

\* --------------------------------------------- header mapping, alone
\* Specification SpecHeader: _map_header applied to one header cell, a text of
\* one to MaxHeaderWords words.
HeaderWords ==
    {<<"P", ".", "U", ".">>,
     <<"P", "r", "e", "t", " ", "u", "n", "i", "t", "a", "r">>,
     <<"U", "n", "i", "t", " ", "p", "r", "i", "c", "e">>,
     <<"P", "r", "e", "t", " ", "t", "o", "t", "a", "l">>,
     <<"T", "o", "t", "a", "l", " ", "p", "r", "i", "c", "e">>,
     <<"T", "o", "t", "a", "l">>,
     <<"T", "a", "x", "a">>,
     <<"v", "e", "r", "d", "e">>,
     <<"T", "a", "x", "a", " ", "V", "e", "r", "d", "e", " ", "(", "R", "O", "N", ")">>,
     <<"T", "a", "x", "a", "\n", "V", "e", "r", "d", "e", " ", "(", "R", "O", "N", ")">>,
     <<"(", "R", "O", "N", ")">>,
     <<"C", "a", "n", "t", "i", "t", "a", "t", "e">>,
     <<"N", "r", ".", " ", "c", "r", "t">>,
     <<"V", "a", "l", "o", "a", "r", "e">>}

RECURSIVE join_words(_)
join_words(ws) ==
    IF Len(ws) = 1 THEN ws[1] ELSE ws[1] \o <<" ">> \o join_words(Tail(ws))

InitHeader ==
    /\ \E ws \in BoundedSeq(HeaderWords, MaxHeaderWords) :
           ws # <<>> /\ header_text = join_words(ws)
    /\ mapped = "" /\ row_read = <<>> /\ kept = FALSE /\ sheet_cells = <<>> /\ header_row = 0
    /\ files = <<>>
    /\ pc = "header"
    /\ NoStockIndex /\ NoLookup /\ NoAggregation /\ NoExtraction /\ NoOutput /\ NoRun

\* _extract_data_from_sheet: mapped = self._map_header(str(raw))
MapHeader ==
    /\ pc = "header"
    /\ mapped' = map_header(header_text)
    /\ pc' = "mapped"
    /\ UNCHANGED <<files, stockVars, lookupVars, header_text, row_read, kept, sheet_cells,
                   header_row, aggVars, extractVars, outVars, runVars>>

NextHeader == MapHeader

SpecHeader == InitHeader /\ [][NextHeader]_vars

HeaderMapped == pc = "mapped"

\* the header as the markers are looked for in it
Folded == fold_newlines(strip(lower(header_text)))

HasGreenMarker ==
    contains(Folded, <<"t", "a", "x", "a">>) \/ contains(Folded, <<"v", "e", "r", "d", "e">>)

T_PretTotalTaxaVerde == <<"P", "r", "e", "t", " ", "t", "o", "t", "a", "l", " ", "T", "a", "x", "a", " ", "V", "e", "r", "d", "e", " ", "(", "R", "O", "N", ")">>

\* C17: a header with a green-tax marker (taxa, verde) is never mapped to the
\* plain unit price or the plain total price; "Pret total Taxa Verde (RON)"
\* is mapped to the green-tax total although it contains "pret total".
C17_GreenTaxNeverPlain ==
    HeaderMapped =>
        /\ HasGreenMarker => mapped \notin {"pu", "pret_total"}
        /\ header_text = T_PretTotalTaxaVerde => mapped = "pret_total_taxa"

C17_Witness ==
    /\ HeaderMapped
    /\ header_text = T_PretTotalTaxaVerde
    /\ mapped = "pret_total_taxa"

\* the header matches one of the keyword sets tried before the prices
HigherPrecedence ==
    \/ any_in(NrCrtMarkers, Folded) \/ any_in(DescriereMarkers, Folded)
    \/ any_in(DenumireMarkers, Folded) \/ any_in(CodArticolMarkers, Folded)
    \/ any_in(FurnizorMarkers, Folded) \/ any_in(CantitateMarkers, Folded)

HasPriceUnitMarker ==
    \/ contains(Folded, <<"p", ".", "u", ".">>)
    \/ contains(Folded, <<"p", "r", "e", "t", " ", "u", "n", "i", "t", "a", "r">>)
    \/ contains(Folded, <<"u", "n", "i", "t", " ", "p", "r", "i", "c", "e">>)

\* C18: a header that matches no keyword set of higher precedence and holds a
\* price-unit marker (p.u., pret unitar, unit price) together with a green-tax
\* marker is mapped to the green-tax unit price.
C18_GreenUnitPrice ==
    (HeaderMapped /\ ~HigherPrecedence /\ HasPriceUnitMarker /\ HasGreenMarker) =>
        mapped = "pu_taxa"

\* --------------------------------------------- the validity filter, alone
\* Specification SpecValid: the row loop's test applied to the mapped cells of
\* one row.
T_BoltM8 == <<"B", "o", "l", "t", " ", "M", "8">>
T_TotalGeneral == <<"T", "o", "t", "a", "l", " ", "g", "e", "n", "e", "r", "a", "l">>
T_Descriere == <<"D", "e", "s", "c", "r", "i", "e", "r", "e">>
T_CodArticol == <<"C", "o", "d", " ", "a", "r", "t", "i", "c", "o", "l">>
T_Furnizor == <<"F", "u", "r", "n", "i", "z", "o", "r">>
T_NA == <<"N", "/", "A">>
T_none == <<"n", "o", "n", "e">>
T_dash == <<"-">>
T_blank == <<" ">>

DescriereCells ==
    {None, Str(T_blank), Str(T_dash), Str(T_BoltM8), Str(T_TotalGeneral), Str(T_Descriere),
     Str(T_CodArticol), Num(0), Num(5)}
DenumireCells == {None, Str(T_NA), Str(T_BoltM8)}
CodArticolCells == {None, Str(T_AB1), Str(T_CodArticol)}
FurnizorCells == {None, Str(T_dash), Str(T_Furnizor)}
CantitateCells == {None, Num(0), Num(10), Str(T_none)}

InitValid ==
    /\ \E d \in DescriereCells, n \in DenumireCells, c \in CodArticolCells,
          f \in FurnizorCells, q \in CantitateCells :
           row_read = [ItemRow(c, d, q, None, None, None, None) EXCEPT
                           !.denumire = n, !.furnizor = f]
    /\ header_text = <<>> /\ mapped = "" /\ kept = FALSE
    /\ sheet_cells = <<>> /\ header_row = 0
    /\ files = <<>>
    /\ pc = "row"
    /\ NoStockIndex /\ NoLookup /\ NoAggregation /\ NoExtraction /\ NoOutput /\ NoRun

\* _extract_data_from_sheet: if has_data and self._is_valid_item_row(row_data)
ReadRow ==
    /\ pc = "row"
    /\ kept' = (has_data(row_read) /\ is_valid_item_row(row_read))
    /\ pc' = "row_read"
    /\ UNCHANGED <<files, stockVars, lookupVars, header_text, mapped, row_read, sheet_cells,
                   header_row, aggVars, extractVars, outVars, runVars>>

NextValid == ReadRow

SpecValid == InitValid /\ [][NextValid]_vars

RowRead == pc = "row_read"

\* the cell holds a value that is not blank
NonEmpty(cell) == cell.k # "none" /\ strip(pystr(cell)) # <<>>

\* the description is a text with a total or summary keyword in it
HasTotalKeyword(cell) ==
    cell.k = "str" /\ \E kw \in TotalKeywords : contains(lower(strip(cell.s)), kw)

\* the cell holds a value other than a placeholder
HoldsValue(cell) == NonEmpty(cell) /\ lower(strip(pystr(cell))) \notin {T_none, <<"n", "/", "a">>, T_dash}

ValueCount(r) ==
    Cardinality({f \in {"descriere", "denumire", "cod_articol", "furnizor", "cantitate"} :
                    HoldsValue(r[f])})

\* C19: a row is kept if and only if its description is non-empty, it is not
\* header-like, its description holds no total keyword, and at least two of
\* description, name, article code, supplier and quantity hold a value that
\* is not a placeholder.
C19_KeptIffValid ==
    RowRead =>
        (kept <=> /\ NonEmpty(row_read.descriere)
                  /\ ~is_header_row(row_read)
                  /\ ~HasTotalKeyword(row_read.descriere)
                  /\ ValueCount(row_read) >= 2)

\* --------------------------------------------- header detection, alone
\* Specification SpecDetect: the header row detection applied to a sheet with
\* up to three header cells in one row, the third in a column of its own, and
\* possibly the same header cells again in the next row.
T_Denumire == <<"D", "e", "n", "u", "m", "i", "r", "e">>
HeaderRowChoices == {1, 2, HeaderScanRows - 1, HeaderScanRows, HeaderScanRows + 1}
ThirdColumnChoices == {3, HeaderScanCols - 1, HeaderScanCols, HeaderScanCols + 1}

\* n header cells in row r: columns 1 and 2, then column c3
header_cells(r, n, c3) ==
    {x \in {[r |-> r, c |-> 1, value |-> Str(T_Descriere)],
            [r |-> r, c |-> 2, value |-> Str(T_Denumire)],
            [r |-> r, c |-> c3, value |-> Str(T_CodArticol)]} :
        \/ x.c = 1
        \/ x.c = 2 /\ n >= 2
        \/ x.c = c3 /\ n >= 3}

InitDetect ==
    /\ \E r \in HeaderRowChoices, c3 \in ThirdColumnChoices, n \in 1..3, again \in BOOLEAN :
           sheet_cells =
               [max_row |-> r + 2, max_column |-> c3,
                cells |-> header_cells(r, n, c3)
                              \cup (IF again THEN header_cells(r + 1, 3, 3) ELSE {})
                              \cup {[r |-> r + 2, c |-> 1, value |-> Str(T_BoltM8)]}]
    /\ header_text = <<>> /\ mapped = "" /\ row_read = <<>> /\ kept = FALSE /\ header_row = 0
    /\ files = <<>>
    /\ pc = "detect"
    /\ NoStockIndex /\ NoLookup /\ NoAggregation /\ NoExtraction /\ NoOutput /\ NoRun

\* _extract_data_from_sheet up to "if not header_row: return data"
DetectHeader ==
    /\ pc = "detect"
    /\ header_row' = detect_header_row(sheet_cells)
    /\ pc' = "detected"
    /\ UNCHANGED <<files, stockVars, lookupVars, header_text, mapped, row_read, kept,
                   sheet_cells, aggVars, extractVars, outVars, runVars>>

NextDetect == DetectHeader

SpecDetect == InitDetect /\ [][NextDetect]_vars

Detected == pc = "detected"

\* row r has at least 3 of the 7 indicators, each in some non-empty cell of
\* its first 15 columns
Qualifies(r) ==
    Cardinality({ind \in Indicators :
        \E x \in sheet_cells.cells :
            /\ x.r = r /\ x.c \in 1..15
            /\ x.value.k = "str" /\ contains(lower(x.value.s), ind)}) >= 3

\* C20: the header row is the smallest row among the first 25 in which at
\* least 3 of the 7 indicators occur in a non-empty cell of the first 15
\* columns, row 25 and column 15 included; with no such row none is found.
C20_HeaderRowDetection ==
    Detected =>
        IF \E r \in 1..25 : r <= sheet_cells.max_row /\ Qualifies(r)
        THEN /\ header_row \in 1..25
             /\ Qualifies(header_row)
             /\ \A r \in 1..(header_row - 1) : ~Qualifies(r)
        ELSE header_row = 0

\* ------------------------------------------- cancel between the sheets

\* C21: the flag is polled before each of the two derived sheets: when it is
\* set after the Cumulative sheet is begun and before the Centralizator sheet
\* is, the next thing the worker does is abort as cancelled, with nothing
\* aggregated and no Centralizator sheet written.
C21_PollBeforeCentralizator ==
    [][(pc = "centralizator" /\ cancel_event /\ pc' # pc) =>
           /\ pc' = "raised" /\ raised' = Cancelled
           /\ cen_data' = <<>>
           /\ \A i \in 1..Len(wb_sheets') : wb_sheets'[i] # T_Centralizator]_vars

\* ------------------------------------------- the outcome and the output

\* the run has been reported to the user
Reported == outcome # ""

\* C22: what is reported agrees with what is written, however the cancel
\* request falls among the worker's steps: a run reported as "Cancelled." has
\* saved no output, and a run that saved its output is reported as
\* "Processing completed.".
C22_OutcomeAgreesWithOutput ==
    Reported =>
        /\ outcome = "Cancelled." => ~saved
        /\ saved => outcome = "Processing completed."

\* ------------------------------------------- aggregation returns

\* the aggregation step has been taken, whichever way it ended
AggregationDone == pc \in {"aggregated", "raised"}

\* every row of the consolidated sequence is one _is_valid_item_row accepts
AllRowsValid ==
    \A k \in 1..Len(consolidated_data) : is_valid_item_row(consolidated_data[k])

\* C23: aggregation returns normally for every non-empty sequence of rows that
\* the validity filter accepts, rows without a code whose descriptions are of
\* different kinds (a text, a number) included: the final sort never raises.
C23_AggregationReturns ==
    (AggregationDone /\ consolidated_data # <<>> /\ AllRowsValid) =>
        pc = "aggregated" /\ raised = ""

\* ------------------------------------------- aggregation partitions

\* the Centralizator rows whose group holds row i of the consolidated sequence
RowsHolding(i) ==
    {k \in 1..Len(cen_data) :
        \E m \in 1..Len(GroupOf(cen_data[k])) :
            GroupOf(cen_data[k])[m] = consolidated_data[i]}

\* the summed Quantity of the Centralizator rows, in millionths
RECURSIVE CentralizatorQuantity(_)
CentralizatorQuantity(out) ==
    IF out = <<>> THEN 0 ELSE out[1].cantitate + CentralizatorQuantity(Tail(out))

\* the summed parsed Quantity of rows, in units of 1/Fine
RECURSIVE CumulativeQuantity(_)
CumulativeQuantity(rows) ==
    IF rows = <<>> THEN 0
    ELSE ParsedQuantity(rows[1].cantitate) + CumulativeQuantity(Tail(rows))

\* the distinct keys of the rows with a code, and of those without
CodedKeys == {group_key(consolidated_data[i]).key : i \in CodedRows}
UncodedKeys == {group_key(consolidated_data[i]).key : i \in UncodedRows}

\* every row is in the group of exactly one Centralizator row, and there is
\* one Centralizator row for each distinct key
Partitioned ==
    /\ \A i \in 1..Len(consolidated_data) : Cardinality(RowsHolding(i)) = 1
    /\ Len(cen_data) = Cardinality(CodedKeys) + Cardinality(UncodedKeys)

\* every quantity of the consolidated sequence is a whole number
WholeQuantities ==
    \A i \in 1..Len(consolidated_data) :
        ParsedQuantity(consolidated_data[i].cantitate) % Fine = 0

\* C24 as stated: aggregation partitions its input, so the Quantity summed
\* over the Centralizator rows equals the parsed Quantity (missing taken as 0)
\* summed over the Cumulative rows, and there are as many Centralizator rows as
\* distinct coded keys plus distinct uncoded keys.
C24_QuantityConserved ==
    Aggregated =>
        /\ Partitioned
        /\ 10 * CentralizatorQuantity(cen_data) = CumulativeQuantity(consolidated_data)

\* C24 as amended: aggregation partitions its input and there are as many
\* Centralizator rows as distinct coded keys plus distinct uncoded keys; the
\* Quantity of a Centralizator row is the parsed Quantity summed over its
\* group and rounded to 6 decimals, so the two sums differ by at most half a
\* millionth for each Centralizator row, and are equal when the quantities
\* are whole numbers.
C24_QuantityConservedUpToRounding ==
    Aggregated =>
        /\ Partitioned
        /\ \A k \in 1..Len(cen_data) :
               IsRoundedFine(cen_data[k].cantitate, CumulativeQuantity(GroupOf(cen_data[k])))
        /\ 10 * CentralizatorQuantity(cen_data) - CumulativeQuantity(consolidated_data)
               \in (-5 * Len(cen_data))..(5 * Len(cen_data))
        /\ WholeQuantities =>
               10 * CentralizatorQuantity(cen_data) = CumulativeQuantity(consolidated_data)

\* two rows of one group whose summed quantity is rounded
C24_Witness ==
    /\ Aggregated
    /\ Len(consolidated_data) = 2
    /\ Len(cen_data) = 1
    /\ Cardinality(RowsHolding(1)) = 1 /\ Cardinality(RowsHolding(2)) = 1
    /\ 10 * cen_data[1].cantitate # CumulativeQuantity(consolidated_data)

====
